---- MODULE Spec2Model ----
(***************************************************************************)
(* Decision engine of Tradegram_AI: the DQN learner                        *)
(* (src/ai_model/reinforcement.py) and the recommendation arbiter          *)
(* (src/agent/agent.py).                                                   *)
(*                                                                         *)
(* Real numbers are fixed-point thousandths: 1.0 is 1000, 0.75 is 750,     *)
(* an RSI of 30 is 30000.  The parameters of a network are abstracted to   *)
(* an index into a finite family of Q-functions.                           *)
(***************************************************************************)
EXTENDS Integers, Sequences, FiniteSets, TLC

VARIABLES
    L,                  \* learner id -> ReinforcementLearner fields
    disk,               \* the checkpoint file at the one path used
    hist,               \* learner id -> experiences passed to train, in call order
    last,               \* the last learner operation and the branch it took
    saved,              \* PolicyState of the saver at the last completed save
    apc,                \* position of the arbiter request
    pattern_analysis,   \* arguments of _generate_recommendation
    sentiment_result,
    state,              \* result of _prepare_state
    action,             \* result of awaiting predict_action
    result,             \* what _generate_recommendation ends with
    path,               \* "rl" or "rule": which branch decided
    task,               \* coroutine id -> kind, position and locals
    running,            \* the coroutine holding the event loop
    an,                 \* the call of a TradeAnalyzer method in progress
    mk,                 \* the call of analyze_market or generate_trade_signal
    enc,                \* the call of _prepare_state
    rq                  \* the RequestHandler and its process_request call

vars == <<L, disk, hist, last, saved, apc, pattern_analysis, sentiment_result,
          state, action, result, path, task, running, an, mk, enc, rq>>

learnerVars == <<L, disk, hist, last, saved>>
arbiterVars == <<apc, pattern_analysis, sentiment_result, state, action, result, path>>
loopVars    == <<task, running>>
analyzerVars == <<an, mk, enc>>
handlerVars == <<rq>>

----------------------------------------------------------------------------
(* Bounds of the model *)

\* largest retry limit the environment configures
MaxRetryLimit == 7

\* minimum batch; the source fixes 32 (reinforcement.py:37), scaled down
batch_size == 2
\* capacity of the replay memory; the source fixes 10000
\* (reinforcement.py:45), scaled down
maxlen == 3
\* train calls explored per learner
MaxTrainCalls == 4
\* train calls explored when following epsilon down to its floor
MaxDecayCalls == 452
\* train calls explored on the shared event loop
MaxLoopCalls == 3
\* size of the finite family of Q-functions standing for the parameters
NumParams == 3

(* Program constants *)
action_size == 3
epsilon_min == 10
epsilon_decay == 995
gamma == 950

Min(a, b) == IF a < b THEN a ELSE b
Max(a, b) == IF a > b THEN a ELSE b
Sign(x) == IF x > 0 THEN 1 ELSE IF x < 0 THEN -1 ELSE 0

RECURSIVE SumSeq(_)
SumSeq(s) == IF s = <<>> THEN 0 ELSE Head(s) + SumSeq(Tail(s))

----------------------------------------------------------------------------
(* State arguments of the learner.  A well-formed state is one row of      *)
(* state_size features, here one feature id; "rows" is an array of several *)
(* rows of state_size features; "bad" is anything the tensor conversion or *)
(* the first layer rejects (wrong length, non-numeric).                    *)

Vec(f)      == [shape |-> "vec",  x |-> <<f>>]
Rows(f, g)  == [shape |-> "rows", x |-> <<f, g>>]
BadState    == [shape |-> "bad",  x |-> <<>>]

Learners == {"A", "B"}

\* DQNNetwork.forward: the three Q-values of one row under parameters theta
forward(theta, f) ==
    [a \in 0..(action_size - 1) |-> ((theta + a + f) % action_size) * (f + 1)]

\* policy_net(state_tensor): the Q-values of every row, flattened row by row
RECURSIVE q_values(_, _)
q_values(theta, rows) ==
    IF rows = <<>> THEN <<>>
    ELSE LET q == forward(theta, Head(rows))
         IN  <<q[0], q[1], q[2]>> \o q_values(theta, Tail(rows))

\* tensor.argmax() without dim: index of the first maximum of the flattened
\* tensor, zero-based
argmax(q) ==
    CHOOSE i \in 0..(Len(q) - 1) :
        /\ \A j \in 0..(Len(q) - 1) : q[j + 1] <= q[i + 1]
        /\ \A j \in 0..(i - 1) : q[j + 1] < q[i + 1]

\* tensor.max(1)[0] of one row
maxq(theta, f) == LET q == forward(theta, f)
                  IN  Max(q[0], Max(q[1], q[2]))

\* ReinforcementLearner.__init__
FreshLearner ==
    [policy_net |-> 0,
     target_net |-> 0,
     optimizer  |-> [step |-> 0, exp_avg |-> 0],
     epsilon    |-> 1000,
     memory     |-> <<>>]

\* the four components that make up PolicyState
PolicyState(Lr) ==
    [policy_net |-> Lr.policy_net, target_net |-> Lr.target_net,
     optimizer |-> Lr.optimizer, epsilon |-> Lr.epsilon]

----------------------------------------------------------------------------
(* predict_action *)

\* which branch predict_action takes
predict_branch(Lr, s, draw) ==
    IF draw < Lr.epsilon THEN "explore"
    ELSE IF s.shape = "bad" THEN "except"
    ELSE "exploit"

\* the value predict_action returns; draw is random.random(), pick is
\* random.randrange(action_size)
predict_action_wide_pick(Lr, s, draw, pick) ==
    IF draw < Lr.epsilon THEN pick + 1
    ELSE IF s.shape = "bad" THEN 2
    ELSE argmax(q_values(Lr.policy_net, s.x))

predict_action_explores_at_zero(Lr, s, draw, pick) ==
    IF draw <= Lr.epsilon THEN pick
    ELSE IF s.shape = "bad" THEN 2
    ELSE argmax(q_values(Lr.policy_net, s.x))

predict_action(Lr, s, draw, pick) ==
    IF draw < Lr.epsilon THEN pick
    ELSE IF s.shape = "bad" THEN 2
    ELSE argmax(q_values(Lr.policy_net, s.x))

----------------------------------------------------------------------------
(* train *)

\* an experience the batch conversion or the gather rejects
Malformed(e) ==
    \/ e.state.shape # "vec"
    \/ e.next_state.shape # "vec"
    \/ e.action \notin 0..(action_size - 1)

deque_append_drop_newest(mem, e) ==
    IF Len(mem) >= maxlen THEN SubSeq(mem, 1, maxlen - 1) \o <<e>>
    ELSE Append(mem, e)

\* deque(maxlen).append
deque_append(mem, e) ==
    IF Len(mem) >= maxlen THEN Append(Tail(mem), e) ELSE Append(mem, e)

\* random.sample(self.memory, batch_size): the positions drawn
Samples(mem) == {b \in SUBSET (1..Len(mem)) : Cardinality(b) = batch_size}

RECURSIVE SumSet(_, _, _, _)
SumSet(b, mem, pol, tgt) ==
    IF b = {} THEN 0
    ELSE LET i == CHOOSE j \in b : TRUE
             e == mem[i]
             current_q == 1000 * forward(pol, e.state.x[1])[e.action]
             target_q  == 1000 * e.reward + gamma * maxq(tgt, e.next_state.x[1])
         IN  (current_q - target_q) + SumSet(b \ {i}, mem, pol, tgt)

\* sign of the gradient of the MSE loss of the batch
loss_grad(Lr, b) == Sign(SumSet(b, Lr.memory, Lr.policy_net, Lr.target_net))

\* optimizer.zero_grad(); loss.backward(); optimizer.step()
optimizer_step(Lr, b) ==
    LET g == loss_grad(Lr, b)
        m == Max(-1, Min(1, Lr.optimizer.exp_avg + g))
    IN  [Lr EXCEPT !.optimizer = [step |-> Lr.optimizer.step + 1, exp_avg |-> m],
                   !.policy_net = (Lr.policy_net + NumParams - m) % NumParams]

_update_target_network_noop(Lr) == Lr

\* _update_target_network
_update_target_network(Lr) == [Lr EXCEPT !.target_net = Lr.policy_net]

decay_epsilon_no_floor(Lr) ==
    [Lr EXCEPT !.epsilon = (Lr.epsilon * epsilon_decay) \div 1000]

\* self.epsilon = max(self.epsilon_min, self.epsilon * self.epsilon_decay)
decay_epsilon(Lr) ==
    [Lr EXCEPT !.epsilon = Max(epsilon_min, (Lr.epsilon * epsilon_decay) \div 1000)]

\* if len(self.memory) < self.batch_size: return
needs_more_samples(mem) == Len(mem) < batch_size

\* which branch a train call takes after the append; b is the sample
train_branch(Lr, e, b) ==
    LET mem == deque_append(Lr.memory, e)
    IN  IF needs_more_samples(mem) THEN "skip"
        ELSE IF \E i \in b : Malformed(mem[i]) THEN "except"
        ELSE "update"

train_rolls_back(Lr, e, b) ==
    LET L1 == [Lr EXCEPT !.memory = deque_append(Lr.memory, e)]
    IN  IF needs_more_samples(L1.memory) THEN L1
        ELSE IF \E i \in b : Malformed(L1.memory[i]) THEN Lr
        ELSE decay_epsilon(_update_target_network(optimizer_step(L1, b)))

train_decays_before_return(Lr, e, b) ==
    LET L1 == [Lr EXCEPT !.memory = deque_append(Lr.memory, e)]
    IN  IF needs_more_samples(L1.memory) THEN decay_epsilon(L1)
        ELSE IF \E i \in b : Malformed(L1.memory[i]) THEN L1
        ELSE decay_epsilon(_update_target_network(optimizer_step(L1, b)))

\* the learner after train(state, action, reward, next_state)
train(Lr, e, b) ==
    LET L1 == [Lr EXCEPT !.memory = deque_append(Lr.memory, e)]
    IN  IF needs_more_samples(L1.memory) THEN L1
        ELSE IF \E i \in b : Malformed(L1.memory[i]) THEN L1
        ELSE decay_epsilon(_update_target_network(optimizer_step(L1, b)))

----------------------------------------------------------------------------
(* save_model / load_model *)

NoFile ==
    [k |-> "missing",
     policy_net_state_dict |-> 0, target_net_state_dict |-> 0,
     optimizer_state_dict |-> [step |-> 0, exp_avg |-> 0], epsilon |-> 0]

\* the dictionary torch.save writes
save_model(Lr) ==
    [k |-> "ckpt",
     policy_net_state_dict |-> Lr.policy_net,
     target_net_state_dict |-> Lr.target_net,
     optimizer_state_dict  |-> Lr.optimizer,
     epsilon               |-> Lr.epsilon]

load_model_keeps_optimizer(Lr, ckpt) ==
    [Lr EXCEPT !.policy_net = ckpt.policy_net_state_dict,
               !.target_net = ckpt.target_net_state_dict,
               !.epsilon    = ckpt.epsilon]

\* the learner after the four load statements
load_model(Lr, ckpt) ==
    [Lr EXCEPT !.policy_net = ckpt.policy_net_state_dict,
               !.target_net = ckpt.target_net_state_dict,
               !.optimizer  = ckpt.optimizer_state_dict,
               !.epsilon    = ckpt.epsilon]

----------------------------------------------------------------------------
(* Operations of the learner as actions *)

NoLast == [op |-> "init", who |-> "A", branch |-> "none", ret |-> 0,
           state |-> BadState, draw |-> 0]

NoSnapshot == [valid |-> FALSE, ps |-> PolicyState(FreshLearner)]

E1 == [state |-> Vec(0), action |-> 0, reward |-> 1, next_state |-> Vec(1)]
E2 == [state |-> Vec(1), action |-> 2, reward |-> -1, next_state |-> Vec(0)]
E3 == [state |-> BadState, action |-> 1, reward |-> 0, next_state |-> Vec(0)]

LearnerExps == {E1, E2, E3}
WellFormedExps == {E1, E2}
DecayExps == {E1}
PredictStates == {Vec(0), Vec(1), Rows(0, 1), BadState}
Draws == {0, 995, 999}

\* the samples random.sample can return; none is drawn when the call skips
SampleChoices(mem) ==
    IF needs_more_samples(mem) \/ Samples(mem) = {} THEN {{}} ELSE Samples(mem)

Train(id, exps, cap) ==
    /\ Len(hist[id]) < cap
    /\ \E e \in exps :
         \E b \in SampleChoices(deque_append(L[id].memory, e)) :
            /\ L' = [L EXCEPT ![id] = train(L[id], e, b)]
            /\ hist' = [hist EXCEPT ![id] = Append(hist[id], e)]
            /\ last' = [op |-> "train", who |-> id,
                        branch |-> train_branch(L[id], e, b),
                        ret |-> 0, state |-> e.state, draw |-> 0]
    /\ UNCHANGED <<disk, saved, arbiterVars, loopVars, analyzerVars, handlerVars>>

PredictAction_decays(id) ==
    /\ \E s \in PredictStates, draw \in Draws, pick \in 0..(action_size - 1) :
         last' = [op |-> "predict_action", who |-> id,
                  branch |-> predict_branch(L[id], s, draw),
                  ret |-> predict_action(L[id], s, draw, pick),
                  state |-> s, draw |-> draw]
    /\ L' = [L EXCEPT ![id] = decay_epsilon(L[id])]
    /\ UNCHANGED <<disk, hist, saved, arbiterVars, loopVars, analyzerVars, handlerVars>>

PredictAction(id) ==
    /\ \E s \in PredictStates, draw \in Draws, pick \in 0..(action_size - 1) :
         last' = [op |-> "predict_action", who |-> id,
                  branch |-> predict_branch(L[id], s, draw),
                  ret |-> predict_action(L[id], s, draw, pick),
                  state |-> s, draw |-> draw]
    /\ UNCHANGED <<L, disk, hist, saved, arbiterVars, loopVars, analyzerVars, handlerVars>>

\* the caller switches exploration off: learner.epsilon = 0.0
ForceEpsilon(id) ==
    /\ L[id].epsilon # 0
    /\ L' = [L EXCEPT ![id].epsilon = 0]
    /\ last' = [op |-> "force_epsilon", who |-> id, branch |-> "none",
                ret |-> 0, state |-> BadState, draw |-> 0]
    /\ UNCHANGED <<disk, hist, saved, arbiterVars, loopVars, analyzerVars, handlerVars>>

\* save_model; wrote is FALSE when torch.save raises and the error is logged
SaveModel(id) ==
    /\ \E wrote \in BOOLEAN :
         /\ disk' = IF wrote THEN save_model(L[id]) ELSE disk
         /\ saved' = IF wrote THEN [valid |-> TRUE, ps |-> PolicyState(L[id])]
                      ELSE saved
         /\ last' = [op |-> "save_model", who |-> id,
                     branch |-> IF wrote THEN "ok" ELSE "except",
                     ret |-> 0, state |-> BadState, draw |-> 0]
    /\ UNCHANGED <<L, hist, arbiterVars, loopVars, analyzerVars, handlerVars>>

\* load_model; torch.load raises when the file is missing
LoadModel(id) ==
    /\ L' = IF disk.k = "missing" THEN L
            ELSE [L EXCEPT ![id] = load_model(L[id], disk)]
    /\ last' = [op |-> "load_model", who |-> id,
                branch |-> IF disk.k = "missing" THEN "except" ELSE "ok",
                ret |-> 0, state |-> BadState, draw |-> 0]
    /\ UNCHANGED <<disk, hist, saved, arbiterVars, loopVars, analyzerVars, handlerVars>>

\* the entries load_model reads, in the order of its four statements
CheckpointKeys == {"policy_net_state_dict", "target_net_state_dict",
                   "optimizer_state_dict", "epsilon"}

\* the learner after load_model met the entries `bad` missing from the
\* dictionary torch.load returned: checkpoint[key] raises at the first of
\* them, the statements before it have already been applied
load_model_from(Lr, ckpt, bad) ==
    IF "policy_net_state_dict" \in bad THEN Lr
    ELSE LET L1 == [Lr EXCEPT !.policy_net = ckpt.policy_net_state_dict]
         IN  IF "target_net_state_dict" \in bad THEN L1
             ELSE LET L2 == [L1 EXCEPT !.target_net = ckpt.target_net_state_dict]
                  IN  IF "optimizer_state_dict" \in bad THEN L2
                      ELSE LET L3 == [L2 EXCEPT !.optimizer =
                                                    ckpt.optimizer_state_dict]
                           IN  IF "epsilon" \in bad THEN L3
                               ELSE [L3 EXCEPT !.epsilon = ckpt.epsilon]

\* load_model(path) on a file that holds the entries of disk except `bad`
\* (a checkpoint written by another version of the program); every entry
\* after the first missing one is never read
LoadModelFile(id) ==
    /\ \E bad \in {{}} \cup {{key} : key \in CheckpointKeys} :
         /\ L' = IF disk.k = "missing" THEN L
                 ELSE [L EXCEPT ![id] = load_model_from(L[id], disk, bad)]
         /\ last' = [op |-> "load_model", who |-> id,
                     branch |-> IF disk.k = "missing" \/ bad # {}
                                THEN "except" ELSE "ok",
                     ret |-> 0, state |-> BadState, draw |-> 0]
    /\ UNCHANGED <<disk, hist, saved, arbiterVars, loopVars, analyzerVars, handlerVars>>

\* learner "B" was restored from the checkpoint learner "A" wrote, "A" has
\* not changed since, and both were given the same train calls afterwards
Resumed ==
    \/ last.op = "train_both"
    \/ /\ last.op = "load_model" /\ last.who = "B" /\ last.branch = "ok"
       /\ saved.valid
       /\ PolicyState(L["A"]) = saved.ps

\* one train call made on the writer and on the restored learner with the
\* same experience; where both reach random.sample it returns the same
\* positions to both
TrainBoth ==
    /\ Resumed
    /\ Len(hist["A"]) < MaxTrainCalls
    /\ \E e \in WellFormedExps :
         \E bA \in SampleChoices(deque_append(L["A"].memory, e)),
            bB \in SampleChoices(deque_append(L["B"].memory, e)) :
            /\ (bA # {} /\ bB # {}) => bA = bB
            /\ L' = [L EXCEPT !["A"] = train(L["A"], e, bA),
                              !["B"] = train(L["B"], e, bB)]
            /\ hist' = [hist EXCEPT !["A"] = Append(hist["A"], e),
                                    !["B"] = Append(hist["B"], e)]
            /\ last' = [op |-> "train_both", who |-> "B",
                        branch |-> train_branch(L["B"], e, bB),
                        ret |-> 0, state |-> e.state, draw |-> 0]
    /\ UNCHANGED <<disk, saved, arbiterVars, loopVars, analyzerVars, handlerVars>>

----------------------------------------------------------------------------
(* Arguments of the arbiter.  A field of a mapping is absent, a number, or *)
(* a value that is not a number (None).                                    *)

NoField  == [k |-> "absent", v |-> 0]
BadField == [k |-> "bad", v |-> 0]
Num(x)   == [k |-> "num", v |-> x]

NoMacd        == [k |-> "absent", value |-> NoField]
BadMacd       == [k |-> "bad", value |-> NoField]
MacdMap(f)    == [k |-> "map", value |-> f]

NoLabel       == [k |-> "absent", label |-> "neutral"]
StrLabel(l)   == [k |-> "str", label |-> l]
EnumLabel(l)  == [k |-> "enum", label |-> l]

Raised    == [ok |-> FALSE, v |-> 0]
Value(x)  == [ok |-> TRUE, v |-> x]

FloatOf_zero_default(f, default) ==
    IF f.k = "absent" THEN Value(0)
    ELSE IF f.k = "num" THEN Value(f.v)
    ELSE Raised

\* float(mapping.get(name, default))
FloatOf(f, default) ==
    IF f.k = "absent" THEN Value(default)
    ELSE IF f.k = "num" THEN Value(f.v)
    ELSE Raised

\* float(pattern_analysis.get("macd", {}).get("value", 0.0))
MacdValueOf(m) ==
    IF m.k = "absent" THEN Value(0)
    ELSE IF m.k = "bad" THEN Raised
    ELSE FloatOf(m.value, 0)

\* trend_map.get(trend, 0.0)
trend_map(t) ==
    IF t.k = "absent" THEN 0
    ELSE IF t.label = "up" THEN 1000
    ELSE IF t.label = "down" THEN -1000
    ELSE 0

\* sentiment_map.get(sentiment, 0.0) after lower() or .value
sentiment_map(s) ==
    IF s.k = "absent" THEN 0
    ELSE IF s.label = "positive" THEN 1000
    ELSE IF s.label = "negative" THEN -1000
    ELSE 0

\* float(len(sentiment_result.get("sources", []))) / 10.0
SourceCountOf(f) ==
    IF f.k = "absent" THEN Value(0)
    ELSE IF f.k = "num" THEN Value(f.v * 100)
    ELSE Raised

NoState == [ok |-> FALSE, vec |-> <<>>]

\* _prepare_state: the ten slots, or the exception of the first conversion
\* that fails
_prepare_state_rsi_unscaled(pa, sr) ==
    LET s0 == FloatOf(pa.rsi, 50000)
        s1 == MacdValueOf(pa.macd)
        s2 == FloatOf(pa.volume, 0)
        s3 == FloatOf(pa.change_24h, 0)
        s6 == FloatOf(sr.confidence, 0)
        s7 == FloatOf(pa.volatility, 0)
        s8 == FloatOf(pa.volume_change, 0)
        s9 == SourceCountOf(sr.sources)
    IN  IF s0.ok /\ s1.ok /\ s2.ok /\ s3.ok /\ s6.ok /\ s7.ok /\ s8.ok /\ s9.ok
        THEN [ok |-> TRUE,
              vec |-> << s0.v, s1.v, s2.v \div 1000000, s3.v \div 100,
                         trend_map(pa.trend), sentiment_map(sr.sentiment),
                         s6.v, s7.v, s8.v \div 100, s9.v >>]
        ELSE NoState

_prepare_state(pa, sr) ==
    LET s0 == FloatOf(pa.rsi, 50000)
        s1 == MacdValueOf(pa.macd)
        s2 == FloatOf(pa.volume, 0)
        s3 == FloatOf(pa.change_24h, 0)
        s6 == FloatOf(sr.confidence, 0)
        s7 == FloatOf(pa.volatility, 0)
        s8 == FloatOf(pa.volume_change, 0)
        s9 == SourceCountOf(sr.sources)
    IN  IF s0.ok /\ s1.ok /\ s2.ok /\ s3.ok /\ s6.ok /\ s7.ok /\ s8.ok /\ s9.ok
        THEN [ok |-> TRUE,
              vec |-> << s0.v \div 100, s1.v, s2.v \div 1000000, s3.v \div 100,
                         trend_map(pa.trend), sentiment_map(sr.sentiment),
                         s6.v, s7.v, s8.v \div 100, s9.v >>]
        ELSE NoState

signal_map_swapped(a) ==
    IF a = 0 THEN "SELL" ELSE IF a = 1 THEN "BUY" ELSE "HOLD"

\* signal_map
signal_map(a) ==
    IF a = 0 THEN "BUY" ELSE IF a = 1 THEN "SELL" ELSE "HOLD"

\* action in signal_map
in_signal_map(a) == a \in {0, 1, 2}

\* _traditional_recommendation: the signal returned, or Raised when a
\* comparison or a .get meets a value it cannot handle
_traditional_recommendation(pa, sr) ==
    LET sentiment  == IF sr.sentiment.k = "absent" THEN StrLabel("neutral")
                      ELSE sr.sentiment
        confidence == IF sr.confidence.k = "absent" THEN Num(0) ELSE sr.confidence
        rsi        == IF pa.rsi.k = "absent" THEN Num(50000) ELSE pa.rsi
        value      == IF pa.macd.k = "absent" \/ pa.macd.value.k = "absent"
                      THEN Num(0) ELSE pa.macd.value
        IsStr(l)   == sentiment.k = "str" /\ sentiment.label = l
    IN  IF confidence.k = "bad" THEN Raised
        ELSE IF confidence.v > 750 /\ IsStr("positive") THEN
            IF rsi.k = "bad" THEN Raised
            ELSE IF rsi.v < 30000 THEN Value("BUY")
            ELSE IF pa.macd.k = "bad" \/ value.k = "bad" THEN Raised
            ELSE IF value.v > 0 THEN Value("BUY")
            ELSE Value("HOLD")
        ELSE IF confidence.v > 750 /\ IsStr("negative") THEN
            IF rsi.k = "bad" THEN Raised
            ELSE IF rsi.v > 70000 THEN Value("SELL")
            ELSE IF pa.macd.k = "bad" \/ value.k = "bad" THEN Raised
            ELSE IF value.v < 0 THEN Value("SELL")
            ELSE Value("HOLD")
        ELSE Value("HOLD")

\* what the call of _traditional_recommendation ends with
TraditionalOutcome(pa, sr) ==
    LET r == _traditional_recommendation(pa, sr)
    IN  IF r.ok THEN r.v ELSE "raise"

\* the state argument under which the abstracted network sees a vector
StateArg(vec) == Vec(SumSeq(vec) % 2)

NoPattern ==
    [rsi |-> NoField, macd |-> NoMacd, volume |-> NoField, change_24h |-> NoField,
     trend |-> NoLabel, volatility |-> NoField, volume_change |-> NoField]
NoSentiment == [sentiment |-> NoLabel, confidence |-> NoField, sources |-> NoField]
NoAction == [raised |-> FALSE, value |-> 0, src |-> "none"]

RsiValues == {NoField, BadField, Num(25000), Num(30000), Num(50000),
              Num(70000), Num(75000)}
MacdValues == {NoMacd, BadMacd, MacdMap(NoField), MacdMap(BadField),
               MacdMap(Num(-500)), MacdMap(Num(0)), MacdMap(Num(500))}
VolumeValues == {NoField, BadField, Num(2000000)}
Labels == {"positive", "negative", "neutral"}
SentimentValues == {NoLabel} \cup {StrLabel(l) : l \in Labels}
                   \cup {EnumLabel(l) : l \in Labels}
ConfidenceValues == {NoField, BadField, Num(750), Num(800)}
SourcesValues == {NoField, BadField, Num(1)}

ArbiterPatterns ==
    {[NoPattern EXCEPT !.rsi = r, !.macd = m, !.volume = v] :
        r \in RsiValues, m \in MacdValues, v \in VolumeValues}
ArbiterSentiments ==
    {[sentiment |-> s, confidence |-> c, sources |-> n] :
        s \in SentimentValues, c \in ConfidenceValues, n \in SourcesValues}

\* what a policy object other than the learner can answer the await with
OtherOutcomes == {[raised |-> TRUE, value |-> 0, src |-> "other"],
                  [raised |-> FALSE, value |-> -1, src |-> "other"],
                  [raised |-> FALSE, value |-> 3, src |-> "other"]}

----------------------------------------------------------------------------
(* _generate_recommendation, one step per statement *)

\* the call: _generate_recommendation(pattern_analysis, sentiment_result)
ReceiveRequest ==
    /\ apc = "idle"
    /\ \E pa \in ArbiterPatterns, sr \in ArbiterSentiments :
         /\ pattern_analysis' = pa
         /\ sentiment_result' = sr
    /\ apc' = "prepare"
    /\ UNCHANGED <<state, action, result, path, learnerVars, loopVars, analyzerVars, handlerVars>>

\* state = self._prepare_state(...); an exception enters the except branch
PrepareState ==
    /\ apc = "prepare"
    /\ state' = _prepare_state(pattern_analysis, sentiment_result)
    /\ apc' = IF state'.ok THEN "predict" ELSE "fallback"
    /\ UNCHANGED <<pattern_analysis, sentiment_result, action, result, path,
                   learnerVars, loopVars, analyzerVars, handlerVars>>

\* action = await self.rl_model.predict_action(state), rl_model the learner
AwaitPredictAction ==
    /\ apc = "predict"
    /\ \E draw \in Draws, pick \in 0..(action_size - 1) :
         action' = [raised |-> FALSE,
                    value |-> predict_action(L["A"], StateArg(state.vec), draw, pick),
                    src |-> "learner"]
    /\ apc' = "map"
    /\ UNCHANGED <<pattern_analysis, sentiment_result, state, result, path,
                   learnerVars, loopVars, analyzerVars, handlerVars>>

\* the same await answered by any other policy object: an out-of-range
\* action or an exception
AwaitOtherPolicy ==
    /\ apc = "predict"
    /\ \E o \in OtherOutcomes : action' = o
    /\ apc' = "map"
    /\ UNCHANGED <<pattern_analysis, sentiment_result, state, result, path,
                   learnerVars, loopVars, analyzerVars, handlerVars>>

\* if action not in signal_map: fallback; return signal_map[action]
MapAction ==
    /\ apc = "map"
    /\ IF action.raised \/ ~in_signal_map(action.value)
       THEN /\ apc' = "fallback"
            /\ UNCHANGED <<result, path>>
       ELSE /\ result' = signal_map(action.value)
            /\ path' = "rl"
            /\ apc' = "done"
    /\ UNCHANGED <<pattern_analysis, sentiment_result, state, action,
                   learnerVars, loopVars, analyzerVars, handlerVars>>

\* return await self._traditional_recommendation(...)
Fallback ==
    /\ apc = "fallback"
    /\ result' = TraditionalOutcome(pattern_analysis, sentiment_result)
    /\ path' = "rule"
    /\ apc' = "done"
    /\ UNCHANGED <<pattern_analysis, sentiment_result, state, action,
                   learnerVars, loopVars, analyzerVars, handlerVars>>

\* the caller takes the result; the next request starts from scratch
Return ==
    /\ apc = "done"
    /\ apc' = "idle"
    /\ pattern_analysis' = NoPattern
    /\ sentiment_result' = NoSentiment
    /\ state' = NoState
    /\ action' = NoAction
    /\ result' = "none"
    /\ path' = "none"
    /\ UNCHANGED <<learnerVars, loopVars, analyzerVars, handlerVars>>

----------------------------------------------------------------------------
(* Requests sharing the learner "A" on one asyncio event loop.  train and   *)
(* predict_action are coroutines: one runs from the moment the loop resumes *)
(* it until it suspends at an await or returns.                             *)

NoTask  == "none"
Tasks   == {"t1", "t2"}

IdleTask == [kind |-> "none", pc |-> "idle", waiting |-> FALSE,
             exp |-> E1, batch |-> {}, state |-> BadState, draw |-> 0,
             pick |-> 0, ret |-> 0]

LoopExps == {E1, E3}
LoopStates == {Vec(1)}
LoopDraws == {0, 999}
LoopPicks == {1}

suspends_after_optimizer_step(kind, pc) == kind = "train" /\ pc = "step"

\* the await expressions inside the bodies of train and predict_action:
\* there is none, so no statement hands the loop to another coroutine
suspends_after(kind, pc) == FALSE

\* the loop after task t executed the statement at pc and moved to next
Advance(t, pcNow, next, locals) ==
    LET susp == suspends_after(task[t].kind, pcNow)
    IN  /\ task' = [task EXCEPT ![t] = [locals EXCEPT !.pc = next, !.waiting = susp]]
        /\ running' = IF susp THEN NoTask ELSE t

Runs(t, pc) == running = t /\ ~task[t].waiting /\ task[t].pc = pc

\* a request calls train(state, action, reward, next_state)
CallTrain(t) ==
    /\ task[t].pc = "idle"
    /\ Len(hist["A"]) < MaxLoopCalls
    /\ \E e \in LoopExps :
         /\ task' = [task EXCEPT ![t] = [IdleTask EXCEPT !.kind = "train",
                        !.pc = "start", !.waiting = TRUE, !.exp = e]]
         /\ hist' = [hist EXCEPT !["A"] = Append(hist["A"], e)]
    /\ UNCHANGED <<L, disk, last, saved, running, arbiterVars, analyzerVars, handlerVars>>

\* a request calls predict_action(state)
CallPredict(t) ==
    /\ task[t].pc = "idle"
    /\ \E s \in LoopStates, draw \in LoopDraws, pick \in LoopPicks :
         task' = [task EXCEPT ![t] = [IdleTask EXCEPT !.kind = "predict_action",
                    !.pc = "start", !.waiting = TRUE, !.state = s,
                    !.draw = draw, !.pick = pick]]
    /\ UNCHANGED <<learnerVars, running, arbiterVars, analyzerVars, handlerVars>>

\* the event loop, free, resumes a coroutine that is ready
Resume(t) ==
    /\ running = NoTask
    /\ task[t].waiting
    /\ running' = t
    /\ task' = [task EXCEPT ![t].waiting = FALSE]
    /\ UNCHANGED <<learnerVars, arbiterVars, analyzerVars, handlerVars>>

\* self.memory.append(...); if len(self.memory) < self.batch_size: return
TrainAppend(t) ==
    /\ Runs(t, "start") /\ task[t].kind = "train"
    /\ L' = [L EXCEPT !["A"].memory = deque_append(L["A"].memory, task[t].exp)]
    /\ Advance(t, "start",
               IF needs_more_samples(L'["A"].memory) THEN "done" ELSE "sample",
               task[t])
    /\ UNCHANGED <<disk, hist, last, saved, arbiterVars, analyzerVars, handlerVars>>

\* batch = random.sample(...); the tensor conversions and the loss, which
\* raise on a malformed experience
TrainSample(t) ==
    /\ Runs(t, "sample")
    /\ \E b \in Samples(L["A"].memory) :
         Advance(t, "sample",
                 IF \E i \in b : Malformed(L["A"].memory[i]) THEN "done" ELSE "step",
                 [task[t] EXCEPT !.batch = b])
    /\ UNCHANGED <<learnerVars, arbiterVars, analyzerVars, handlerVars>>

\* self.optimizer.step()
TrainOptimizerStep(t) ==
    /\ Runs(t, "step")
    /\ L' = [L EXCEPT !["A"] = optimizer_step(L["A"], task[t].batch)]
    /\ Advance(t, "step", "sync", task[t])
    /\ UNCHANGED <<disk, hist, last, saved, arbiterVars, analyzerVars, handlerVars>>

\* self._update_target_network()
TrainSync(t) ==
    /\ Runs(t, "sync")
    /\ L' = [L EXCEPT !["A"] = _update_target_network(L["A"])]
    /\ Advance(t, "sync", "decay", task[t])
    /\ UNCHANGED <<disk, hist, last, saved, arbiterVars, analyzerVars, handlerVars>>

\* self.epsilon = max(...)
TrainDecay(t) ==
    /\ Runs(t, "decay")
    /\ L' = [L EXCEPT !["A"] = decay_epsilon(L["A"])]
    /\ Advance(t, "decay", "done", task[t])
    /\ UNCHANGED <<disk, hist, last, saved, arbiterVars, analyzerVars, handlerVars>>

\* the whole body of predict_action
PredictEval(t) ==
    /\ Runs(t, "start") /\ task[t].kind = "predict_action"
    /\ Advance(t, "start", "done",
               [task[t] EXCEPT !.ret = predict_action(L["A"], task[t].state,
                                                      task[t].draw, task[t].pick)])
    /\ UNCHANGED <<learnerVars, arbiterVars, analyzerVars, handlerVars>>

\* the coroutine returns and the loop is free again
TaskReturn(t) ==
    /\ Runs(t, "done")
    /\ task' = [task EXCEPT ![t] = IdleTask]
    /\ running' = NoTask
    /\ UNCHANGED <<learnerVars, arbiterVars, analyzerVars, handlerVars>>

----------------------------------------------------------------------------
(* TradeAnalyzer.  Prices and indicator values are thousandths.  A float is *)
(* a number or NaN; an entry of the IndicatorSet can also be None.  The     *)
(* set `raises` names the indicators whose computation throws inside its    *)
(* try block.                                                               *)

\* rolling window of _calculate_rsi (14 in the source)
periods == 3
\* rolling window of _calculate_bollinger_bands (20 in the source)
window == 3
\* longest price series given to the indicator calculator
MaxRows == 4

NaN == [k |-> "nan", v |-> 0]

\* a < b on floats: False when either side is NaN
Lt(a, b) == a.k = "num" /\ b.k = "num" /\ a.v < b.v

IndicatorNames == {"RSI", "MACD", "BB"}

\* _prepare_data: a frame of one row
_prepare_data(price) == << price >>

\* delta.where(delta > 0, 0) at row i; the first delta is NaN and becomes 0
gain_at(df, i) == IF i > 1 /\ df[i] > df[i - 1] THEN df[i] - df[i - 1] ELSE 0

\* -delta.where(delta < 0, 0) at row i
loss_at(df, i) == IF i > 1 /\ df[i] < df[i - 1] THEN df[i - 1] - df[i] ELSE 0

\* the rows under the last window of rolling(w), for Len(df) >= w
WindowRows(df, w) == [j \in 1..w |-> Len(df) - w + j]

\* rsi.iloc[-1] of a non-empty frame: NaN while the window is not full and
\* for 0/0; a zero loss under a positive gain gives rs = inf and rsi = 100
rsi_last(df) ==
    IF Len(df) < periods THEN NaN
    ELSE LET rows == WindowRows(df, periods)
             gain == SumSeq([j \in 1..periods |-> gain_at(df, rows[j])])
             loss == SumSeq([j \in 1..periods |-> loss_at(df, rows[j])])
         IN  IF loss = 0
             THEN IF gain = 0 THEN NaN ELSE Num(100000)
             ELSE Num((100000 * gain) \div (gain + loss))

_calculate_rsi_reraises(df, raises) ==
    IF "RSI" \in raises \/ Len(df) = 0 THEN Raised
    ELSE Value(rsi_last(df))

\* _calculate_rsi: iloc[-1] of an empty frame throws; the except branch
\* returns 50.0
_calculate_rsi(df, raises) ==
    IF "RSI" \in raises \/ Len(df) = 0 THEN Value(Num(50000))
    ELSE Value(rsi_last(df))

RECURSIVE ewm(_, _)
\* series.ewm(span=span, adjust=False).mean()
ewm(s, span) ==
    IF Len(s) <= 1 THEN s
    ELSE LET prev == ewm(SubSeq(s, 1, Len(s) - 1), span)
         IN  Append(prev, ((span - 1) * prev[Len(prev)] + 2 * s[Len(s)])
                              \div (span + 1))

MacdRecord(m, sg, h) == [k |-> "map", macd |-> m, signal |-> sg, hist |-> h]
NoneMacd == [k |-> "bad", macd |-> NaN, signal |-> NaN, hist |-> NaN]

\* the record of the try body of _calculate_macd, for a non-empty frame
macd_last(df) ==
    LET n == Len(df)
        exp1 == ewm(df, 12)
        exp2 == ewm(df, 26)
        macd_line == [i \in 1..n |-> exp1[i] - exp2[i]]
        signal_line == ewm(macd_line, 9)
    IN  MacdRecord(Num(macd_line[n]), Num(signal_line[n]),
                   Num(macd_line[n] - signal_line[n]))

\* _calculate_macd
_calculate_macd(df, raises) ==
    IF "MACD" \in raises \/ Len(df) = 0
    THEN Value(MacdRecord(Num(0), Num(0), Num(0)))
    ELSE Value(macd_last(df))

RECURSIVE isqrt_in(_, _, _)
isqrt_in(n, lo, hi) ==
    IF lo >= hi THEN lo
    ELSE LET mid == (lo + hi + 1) \div 2
         IN  IF mid * mid <= n THEN isqrt_in(n, mid, hi)
             ELSE isqrt_in(n, lo, mid - 1)

\* square root on thousandths grids, rounded down
isqrt(n) == isqrt_in(n, 0, Min(n, 46340))

BandRecord(u, m, l) == [k |-> "map", upper |-> u, middle |-> m, lower |-> l]
NoneBand == [k |-> "bad", upper |-> NaN, middle |-> NaN, lower |-> NaN]

\* the record of the try body of _calculate_bollinger_bands, for a
\* non-empty frame: NaN while the window is not full
bands_last(df) ==
    IF Len(df) < window THEN BandRecord(NaN, NaN, NaN)
    ELSE LET rows == WindowRows(df, window)
             middle_band == SumSeq([j \in 1..window |-> df[rows[j]]]) \div window
             std_dev == isqrt(SumSeq([j \in 1..window |->
                                 (df[rows[j]] - middle_band)
                                     * (df[rows[j]] - middle_band)])
                              \div (window - 1))
         IN  BandRecord(Num(middle_band + std_dev * 2), Num(middle_band),
                        Num(middle_band - std_dev * 2))

\* _calculate_bollinger_bands
_calculate_bollinger_bands(df, raises) ==
    IF "BB" \in raises \/ Len(df) = 0
    THEN Value(BandRecord(Num(0), Num(0), Num(0)))
    ELSE Value(bands_last(df))

\* _calculate_indicators: an indicator function that throws leaves None
_calculate_indicators(df, raises) ==
    LET rsi  == _calculate_rsi(df, raises)
        macd == _calculate_macd(df, raises)
        bb   == _calculate_bollinger_bands(df, raises)
    IN  [RSI  |-> IF rsi.ok THEN rsi.v ELSE BadField,
         MACD |-> IF macd.ok THEN macd.v ELSE NoneMacd,
         BB   |-> IF bb.ok THEN bb.v ELSE NoneBand]

\* the frame can be indexed: df['price'].iloc[-1]
latest_price(df) == Num(df[Len(df)])

\* the RSI rule of _detect_patterns applied to the tags collected so far
rsi_rule(ind, patterns) ==
    IF Lt(ind.RSI, Num(30000)) THEN Append(patterns, "oversold")
    ELSE IF Lt(Num(70000), ind.RSI) THEN Append(patterns, "overbought")
    ELSE patterns

\* the MACD rule
macd_rule(ind, patterns) ==
    IF Lt(Num(0), ind.MACD.hist) /\ Lt(ind.MACD.signal, ind.MACD.macd)
    THEN Append(patterns, "bullish_crossover")
    ELSE IF Lt(ind.MACD.hist, Num(0)) /\ Lt(ind.MACD.macd, ind.MACD.signal)
    THEN Append(patterns, "bearish_crossover")
    ELSE patterns

bb_rule_lower_first(price, ind, patterns) ==
    IF Lt(price, ind.BB.lower) THEN Append(patterns, "bb_lower_break")
    ELSE patterns

\* the Bollinger rule
bb_rule(price, ind, patterns) ==
    IF Lt(ind.BB.upper, price) THEN Append(patterns, "bb_upper_break")
    ELSE IF Lt(price, ind.BB.lower) THEN Append(patterns, "bb_lower_break")
    ELSE patterns

\* _detect_patterns: one try block around the three rules; a rule that
\* throws (empty frame, None entry) ends the function with the tags
\* collected before it
_detect_patterns(df, ind) ==
    IF Len(df) = 0 THEN <<>>
    ELSE IF ind.RSI.k = "bad" THEN <<>>
    ELSE LET p1 == rsi_rule(ind, <<>>)
         IN  IF ind.MACD.k = "bad" THEN p1
             ELSE LET p2 == macd_rule(ind, p1)
                  IN  IF ind.BB.k = "bad" THEN p2
                      ELSE bb_rule(latest_price(df), ind, p2)

bullish_patterns == {"oversold", "bullish_crossover", "bb_lower_break"}
bearish_patterns == {"overbought", "bearish_crossover", "bb_upper_break"}

\* sum(1 for p in patterns if p in tags)
CountIn(patterns, tags) ==
    Cardinality({i \in 1..Len(patterns) : patterns[i] \in tags})

_determine_trend_ties_up(patterns) ==
    LET bullish_count == CountIn(patterns, bullish_patterns)
        bearish_count == CountIn(patterns, bearish_patterns)
    IN  IF bullish_count >= bearish_count THEN "up"
        ELSE "down"

\* _determine_trend
_determine_trend(patterns) ==
    LET bullish_count == CountIn(patterns, bullish_patterns)
        bearish_count == CountIn(patterns, bearish_patterns)
    IN  IF bullish_count > bearish_count THEN "up"
        ELSE IF bearish_count > bullish_count THEN "down"
        ELSE "neutral"

\* the argument of generate_signals: a mapping with 'patterns' and 'trend',
\* or a bare list of tags
BundleMap(p, t) == [k |-> "map", patterns |-> p, trend |-> t]
BundleList(p)   == [k |-> "list", patterns |-> p, trend |-> NoLabel]

\* max(0.0, min(1.0, x))
clamp(x) == Max(0, Min(1000, x))

confirming_patterns_with_bands(patterns, trend) ==
    IF trend = "up" THEN CountIn(patterns, bullish_patterns)
    ELSE IF trend = "down" THEN CountIn(patterns, bearish_patterns)
    ELSE 0

\* the tags counted by _calculate_signal_strength under a trend
confirming_patterns(patterns, trend) ==
    IF trend = "up" THEN CountIn(patterns, {"bullish_crossover", "oversold"})
    ELSE IF trend = "down"
    THEN CountIn(patterns, {"bearish_crossover", "overbought"})
    ELSE 0

_calculate_signal_strength_unclamped(b) ==
    IF b.k = "list" THEN 500
    ELSE LET trend == IF b.trend.k = "absent" THEN "neutral" ELSE b.trend.label
         IN  500 + confirming_patterns(b.patterns, trend) * 100

\* _calculate_signal_strength: a list has no .get, the except branch
\* returns 0.5
_calculate_signal_strength(b) ==
    IF b.k = "list" THEN 500
    ELSE LET trend == IF b.trend.k = "absent" THEN "neutral" ELSE b.trend.label
         IN  clamp(500 + confirming_patterns(b.patterns, trend) * 100)

\* _determine_signal
_determine_signal(strength) ==
    IF strength > 700 THEN "BUY"
    ELSE IF strength < 300 THEN "SELL"
    ELSE "HOLD"

\* _calculate_confidence: patterns.get('trend') of a mapping without the
\* key is None, which differs from 'neutral'; the except branch returns 0.8
_calculate_confidence(b) ==
    IF b.k = "list" THEN 800
    ELSE clamp(500 + Len(b.patterns) * 100
               + (IF b.trend.k = "absent" \/ b.trend.label # "neutral"
                  THEN 200 ELSE 0))

NoSignals == [signal |-> "HOLD", strength |-> 0, confidence |-> 0]

\* generate_signals
generate_signals(b) ==
    [signal     |-> _determine_signal(_calculate_signal_strength(b)),
     strength   |-> _calculate_signal_strength(b),
     confidence |-> _calculate_confidence(b)]

\* a MarketData object, or None in its place
MarketData(p, v, c) == [k |-> "data", price |-> p, volume |-> v, change_24h |-> c]
NoMarketData == [k |-> "none", price |-> 0, volume |-> 0, change_24h |-> 0]

NoIndicators == [RSI |-> BadField, MACD |-> NoneMacd, BB |-> NoneBand]

\* None returned by analyze_pattern
NoBundle ==
    [ok |-> FALSE, price |-> 0, change_24h |-> 0, volume |-> 0,
     indicators |-> NoIndicators, patterns |-> <<>>, signals |-> NoSignals,
     trend |-> "neutral"]

analyze_pattern_scores_bundle(market_data, raises) ==
    IF market_data.k = "none" THEN NoBundle
    ELSE LET df == _prepare_data(market_data.price)
             indicators == _calculate_indicators(df, raises)
             patterns == _detect_patterns(df, indicators)
             signals == generate_signals(
                            BundleMap(patterns, StrLabel(_determine_trend(patterns))))
         IN  [ok |-> TRUE, price |-> market_data.price,
              change_24h |-> market_data.change_24h,
              volume |-> market_data.volume, indicators |-> indicators,
              patterns |-> patterns, signals |-> signals,
              trend |-> _determine_trend(patterns)]

\* analyze_pattern: the bundle, or None when the try body throws
\* (market_data is not a MarketData)
analyze_pattern(market_data, raises) ==
    IF market_data.k = "none" THEN NoBundle
    ELSE LET df == _prepare_data(market_data.price)
             indicators == _calculate_indicators(df, raises)
             patterns == _detect_patterns(df, indicators)
             signals == generate_signals(BundleList(patterns))
         IN  [ok |-> TRUE, price |-> market_data.price,
              change_24h |-> market_data.change_24h,
              volume |-> market_data.volume, indicators |-> indicators,
              patterns |-> patterns, signals |-> signals,
              trend |-> _determine_trend(patterns)]

----------------------------------------------------------------------------
(* Calls of the TradeAnalyzer methods.  One call is in progress at a time;  *)
(* the caller takes the result before the next call.                        *)

\* longest tag sequence given to _determine_trend
MaxTags == 3
\* longest run of one tag in a bundle given to generate_signals
MaxRun == 10

SeqsUpTo(S, n) == UNION {[1..m -> S] : m \in 0..n}
Rep(x, n) == [i \in 1..n |-> x]

PriceLevels == {1000, 2000, 3000}
Frames == SeqsUpTo(PriceLevels, MaxRows)

Tags == bullish_patterns \cup bearish_patterns
Trends == {"up", "down", "neutral"}

LatestPrices == {0, 1000, 2000, 3000}
RsiEntries == {BadField, NaN, Num(25000), Num(30000), Num(50000), Num(70000),
               Num(75000)}
MacdEntries ==
    {NoneMacd} \cup
    {MacdRecord(Num(m), Num(sg), Num(h)) :
        m \in {0, 500}, sg \in {0, 500}, h \in {-500, 0, 500}}
\* bands as _calculate_bollinger_bands forms them: lower <= middle <= upper,
\* all NaN, or the all-zero default
BandEntries ==
    {NoneBand, BandRecord(NaN, NaN, NaN)} \cup
    {BandRecord(Num(b[1]), Num((b[1] + b[2]) \div 2), Num(b[2])) :
        b \in {<<0, 0>>, <<1500, 0>>, <<1500, 1500>>, <<2500, 0>>,
               <<2500, 1500>>}}
IndicatorSets ==
    {[RSI |-> r, MACD |-> m, BB |-> b] :
        r \in RsiEntries, m \in MacdEntries, b \in BandEntries}
DefaultIndicators ==
    [RSI  |-> Num(50000),
     MACD |-> MacdRecord(Num(0), Num(0), Num(0)),
     BB   |-> BandRecord(Num(0), Num(0), Num(0))]

TagSeqs == SeqsUpTo(Tags, MaxTags)
TagRuns == {Rep(a, i) \o Rep(b, j) : a \in Tags, b \in Tags,
                                      i \in 0..MaxRun, j \in 0..MaxRun}
\* the bundles made of what _detect_patterns returns and of the trend
\* _determine_trend gives it
PipelineBundles ==
    {BundleMap(p, StrLabel(_determine_trend(p))) :
        p \in {_detect_patterns(_prepare_data(price), ind) :
                  price \in LatestPrices, ind \in IndicatorSets}}
Bundles ==
    {BundleMap(p, t) : p \in TagRuns,
                       t \in {NoLabel} \cup {StrLabel(l) : l \in Trends}}
    \cup {BundleList(p) : p \in TagSeqs}
    \cup PipelineBundles

MarketDatas ==
    {NoMarketData} \cup {MarketData(p, 0, 0) : p \in LatestPrices}

NoCall ==
    [op |-> "idle", df |-> <<>>, raises |-> {}, market_data |-> NoMarketData,
     indicators |-> NoIndicators, patterns |-> <<>>, trend |-> "neutral",
     bundle |-> BundleList(<<>>), signals |-> NoSignals, rsi |-> NaN,
     ret |-> NoBundle]

\* _calculate_rsi(df)
CalculateRsi ==
    /\ an.op = "idle"
    /\ \E df \in Frames, raises \in SUBSET {"RSI"} :
         LET r == _calculate_rsi(df, raises)
         IN  an' = [NoCall EXCEPT !.op = "_calculate_rsi", !.df = df,
                                  !.raises = raises,
                                  !.rsi = IF r.ok THEN r.v ELSE BadField]
    /\ UNCHANGED <<learnerVars, arbiterVars, loopVars, mk, enc, handlerVars>>

\* _calculate_indicators(df)
CalculateIndicators ==
    /\ an.op = "idle"
    /\ \E df \in Frames, raises \in SUBSET IndicatorNames :
         an' = [NoCall EXCEPT !.op = "_calculate_indicators", !.df = df,
                              !.raises = raises,
                              !.indicators = _calculate_indicators(df, raises)]
    /\ UNCHANGED <<learnerVars, arbiterVars, loopVars, mk, enc, handlerVars>>

\* _detect_patterns(df, indicators), df a frame whose last price is given
DetectPatterns ==
    /\ an.op = "idle"
    /\ \E price \in LatestPrices, ind \in IndicatorSets :
         an' = [NoCall EXCEPT !.op = "_detect_patterns",
                              !.df = _prepare_data(price), !.indicators = ind,
                              !.patterns = _detect_patterns(_prepare_data(price),
                                                            ind)]
    /\ UNCHANGED <<learnerVars, arbiterVars, loopVars, mk, enc, handlerVars>>

\* _determine_trend(patterns)
DetermineTrend ==
    /\ an.op = "idle"
    /\ \E tags \in TagSeqs :
         an' = [NoCall EXCEPT !.op = "_determine_trend", !.patterns = tags,
                              !.trend = _determine_trend(tags)]
    /\ UNCHANGED <<learnerVars, arbiterVars, loopVars, mk, enc, handlerVars>>

\* generate_signals(patterns)
GenerateSignals ==
    /\ an.op = "idle"
    /\ \E b \in Bundles :
         an' = [NoCall EXCEPT !.op = "generate_signals", !.bundle = b,
                              !.signals = generate_signals(b)]
    /\ UNCHANGED <<learnerVars, arbiterVars, loopVars, mk, enc, handlerVars>>

\* analyze_pattern(market_data)
AnalyzePattern ==
    /\ an.op = "idle"
    /\ \E md \in MarketDatas, raises \in SUBSET IndicatorNames :
         an' = [NoCall EXCEPT !.op = "analyze_pattern", !.market_data = md,
                              !.raises = raises,
                              !.ret = analyze_pattern(md, raises)]
    /\ UNCHANGED <<learnerVars, arbiterVars, loopVars, mk, enc, handlerVars>>

\* the caller takes the result
AnalyzerReturn ==
    /\ an.op # "idle"
    /\ an' = NoCall
    /\ UNCHANGED <<learnerVars, arbiterVars, loopVars, mk, enc, handlerVars>>

----------------------------------------------------------------------------
(* analyze_market and generate_trade_signal of the agent *)

\* longest list SentimentAnalyzer.analyze returns
MaxTexts == 2

\* one entry of the list SentimentAnalyzer.analyze returns
SentimentEntry(l, c, src) == [sentiment |-> l, confidence |-> c, sources |-> src]

Scores == {0, 600, 1000}
\* the entries analyze builds from the pipeline output, and the entry of
\* its except branch
AnalyzerEntries ==
    {SentimentEntry(EnumLabel(l), c, {"FinBERT Analysis"}) :
        l \in Labels, c \in Scores}
    \cup {SentimentEntry(EnumLabel("neutral"), 0, {})}
SentimentLists == SeqsUpTo(AnalyzerEntries, MaxTexts)

\* order of str values under max(): "negative" < "neutral" < "positive"
LabelRank(l) == IF l = "negative" THEN 0 ELSE IF l = "neutral" THEN 1 ELSE 2

\* s.get("sentiment", "neutral")
LabelOf(e) == IF e.sentiment.k = "absent" THEN StrLabel("neutral") ELSE e.sentiment

\* max(s.get("sentiment", "neutral") for s in sentiment_result): an empty
\* list throws, a comparison that involves an Enum member throws
max_label(list) ==
    IF Len(list) = 0 THEN Raised
    ELSE IF Len(list) = 1 THEN Value(LabelOf(list[1]))
    ELSE IF \E i \in 1..Len(list) : LabelOf(list[i]).k # "str" THEN Raised
    ELSE Value(LabelOf(list[CHOOSE i \in 1..Len(list) :
                   \A j \in 1..Len(list) :
                       LabelRank(LabelOf(list[j]).label)
                           <= LabelRank(LabelOf(list[i]).label)]))

\* the dictionary analyze_market builds from the list
aggregate(list) ==
    LET label == max_label(list)
    IN  IF ~label.ok THEN Raised
        ELSE Value([sentiment  |-> label.v,
                    confidence |-> Num(SumSeq([i \in 1..Len(list) |->
                                          list[i].confidence]) \div Len(list)),
                    sources    |-> Num(Cardinality(UNION
                                          {list[i].sources : i \in 1..Len(list)}))])

\* the fields _prepare_state and _traditional_recommendation look up in the
\* bundle of analyze_pattern: it has no 'rsi', 'macd', 'volatility' or
\* 'volume_change' key
as_pattern_analysis(bundle) ==
    [NoPattern EXCEPT !.volume = Num(bundle.volume),
                      !.change_24h = Num(bundle.change_24h),
                      !.trend = StrLabel(bundle.trend)]

\* _generate_recommendation as one call: the signal, or "raise"
_generate_recommendation(pa, sr, Lr, draw, pick) ==
    LET st == _prepare_state(pa, sr)
    IN  IF ~st.ok THEN TraditionalOutcome(pa, sr)
        ELSE LET a == predict_action(Lr, StateArg(st.vec), draw, pick)
             IN  IF in_signal_map(a) THEN signal_map(a)
                 ELSE TraditionalOutcome(pa, sr)

\* TradingSignal.value
signal_value(sig) ==
    IF sig = "BUY" THEN "buy" ELSE IF sig = "SELL" THEN "sell" ELSE "hold"

\* str.upper() on the strings that occur
upper(str) ==
    IF str = "buy" THEN "BUY" ELSE IF str = "sell" THEN "SELL"
    ELSE IF str = "hold" THEN "HOLD" ELSE str

\* None returned by analyze_market
NoMarket ==
    [none |-> TRUE, raised |-> FALSE, price |-> NoField, change_24h |-> NoField,
     volume |-> NoField, sentiment |-> NoLabel, confidence |-> NoField,
     recommendation |-> "none"]

on_market_error_reraise == [NoMarket EXCEPT !.raised = TRUE]

\* except Exception: log and return None
on_market_error == NoMarket

\* analyze_market, from the bundle analyze_pattern answered with and the
\* list the sentiment analyzer answered with
analyze_market(bundle, sentiments, Lr, draw, pick) ==
    IF ~bundle.ok THEN on_market_error
    ELSE LET sr == aggregate(sentiments)
         IN  IF ~sr.ok THEN on_market_error
             ELSE LET rec == _generate_recommendation(
                                 as_pattern_analysis(bundle), sr.v, Lr, draw, pick)
                  IN  IF rec = "raise" THEN on_market_error
                      ELSE [none |-> FALSE, raised |-> FALSE,
                            price |-> Num(bundle.price),
                            change_24h |-> Num(bundle.change_24h),
                            volume |-> Num(bundle.volume),
                            sentiment |-> sr.v.sentiment,
                            confidence |-> sr.v.confidence,
                            recommendation |-> upper(signal_value(rec))]

\* the state vector analyze_market has _generate_recommendation hand to
\* predict_action; none when the call ends before, or the encoding throws
market_state(bundle, sentiments) ==
    IF ~bundle.ok THEN NoState
    ELSE LET sr == aggregate(sentiments)
         IN  IF ~sr.ok THEN NoState
             ELSE _prepare_state(as_pattern_analysis(bundle), sr.v)

\* _get_active_indicators on the dictionary of analyze_market, which has no
\* 'rsi' and no 'macd' key
_get_active_indicators(market) == << "No significant indicators" >>

\* None returned by generate_trade_signal
NoAnalysis ==
    [none |-> TRUE, raised |-> FALSE, recommendation |-> "none",
     confidence |-> NoField, indicators |-> <<>>]

\* generate_trade_signal on the result of analyze_market
generate_trade_signal(market) ==
    IF market.raised THEN NoAnalysis
    ELSE IF market.none THEN NoAnalysis
    ELSE IF upper(market.recommendation) \notin {"BUY", "SELL", "HOLD"}
    THEN NoAnalysis
    ELSE [none |-> FALSE, raised |-> FALSE,
          recommendation |-> upper(market.recommendation),
          confidence |-> market.confidence,
          indicators |-> _get_active_indicators(market)]

\* None returned by analyze_sentiment
NoSentimentResult ==
    [none |-> TRUE, sentiment |-> NoLabel, confidence |-> NoField,
     sources |-> NoField]

\* analyze_sentiment, from the list the sentiment analyzer answered with:
\* None for an empty list and from the except branch, else the aggregate
analyze_sentiment(sentiments) ==
    IF Len(sentiments) = 0 THEN NoSentimentResult
    ELSE LET sr == aggregate(sentiments)
         IN  IF ~sr.ok THEN NoSentimentResult
             ELSE [none |-> FALSE, sentiment |-> sr.v.sentiment,
                   confidence |-> sr.v.confidence, sources |-> sr.v.sources]

NoMarketCall ==
    [op |-> "idle", bundle_ok |-> FALSE, sentiments |-> <<>>,
     market |-> NoMarket, analysis |-> NoAnalysis,
     sentiment |-> NoSentimentResult, rsi |-> NoField, state |-> NoState]

\* the bundle analyze_market gets for its MarketData(price=0.0, volume=0.0,
\* change_24h=0.0); absent when analyze_pattern ended in its except branch
MarketBundles ==
    {NoBundle} \cup
    {analyze_pattern(MarketData(0, 0, 0), raises) : raises \in SUBSET IndicatorNames}

\* analyze_market(symbol)
AnalyzeMarket ==
    /\ mk.op = "idle"
    /\ \E bundle \in MarketBundles, sentiments \in SentimentLists,
          draw \in Draws, pick \in 0..(action_size - 1) :
         mk' = [NoMarketCall EXCEPT
                   !.op = "analyze_market", !.bundle_ok = bundle.ok,
                   !.sentiments = sentiments,
                   !.rsi = bundle.indicators.RSI,
                   !.state = market_state(bundle, sentiments),
                   !.market = analyze_market(bundle, sentiments, L["A"],
                                             draw, pick)]
    /\ UNCHANGED <<learnerVars, arbiterVars, loopVars, an, enc, handlerVars>>

\* generate_trade_signal(symbol)
GenerateTradeSignal ==
    /\ mk.op = "idle"
    /\ \E bundle \in MarketBundles, sentiments \in SentimentLists,
          draw \in Draws, pick \in 0..(action_size - 1) :
         LET market == analyze_market(bundle, sentiments, L["A"], draw, pick)
         IN  mk' = [NoMarketCall EXCEPT
                       !.op = "generate_trade_signal", !.bundle_ok = bundle.ok,
                       !.sentiments = sentiments, !.market = market,
                       !.rsi = bundle.indicators.RSI,
                       !.state = market_state(bundle, sentiments),
                       !.analysis = generate_trade_signal(market)]
    /\ UNCHANGED <<learnerVars, arbiterVars, loopVars, an, enc, handlerVars>>

\* analyze_sentiment(symbol)
AnalyzeSentiment ==
    /\ mk.op = "idle"
    /\ \E sentiments \in SentimentLists :
         mk' = [NoMarketCall EXCEPT
                   !.op = "analyze_sentiment", !.sentiments = sentiments,
                   !.sentiment = analyze_sentiment(sentiments)]
    /\ UNCHANGED <<learnerVars, arbiterVars, loopVars, an, enc, handlerVars>>

\* the caller takes the result
MarketReturn ==
    /\ mk.op # "idle"
    /\ mk' = NoMarketCall
    /\ UNCHANGED <<learnerVars, arbiterVars, loopVars, an, enc, handlerVars>>

----------------------------------------------------------------------------
(* RequestHandler.process_request *)

\* Settings.MAX_RETRIES when the environment does not set it
MAX_RETRIES == 3

\* values of settings.MAX_RETRIES: the default, or what the environment sets
RetryLimits == {0, 1, MAX_RETRIES, MaxRetryLimit}

\* 2 ** attempt
RECURSIVE pow2(_)
pow2(k) == IF k = 0 THEN 1 ELSE 2 * pow2(k - 1)

wait_time_uncapped(attempt) == pow2(attempt)

\* wait_time = min(2 ** attempt, 30)
wait_time(attempt) == Min(pow2(attempt), 30)

\* how one attempt can end: status 200 and the body read; status 200 and
\* response.json() raising; another status; the post raising (connection
\* error, timeout)
Outcomes == {"body", "bad_body", "status", "exception"}

\* no handler constructed yet
NoHandler ==
    [pc |-> "none", max_retries |-> 0, attempt |-> 0, log |-> <<>>,
     slept |-> <<>>, ret |-> "none"]

\* RequestHandler.__init__
NewRequestHandler ==
    /\ rq.pc = "none"
    /\ \E m \in RetryLimits :
         rq' = [NoHandler EXCEPT !.pc = "idle", !.max_retries = m]
    /\ UNCHANGED <<learnerVars, arbiterVars, loopVars, analyzerVars>>

\* process_request is called: the for loop starts, or ends at once over an
\* empty range
ProcessRequest ==
    /\ rq.pc = "idle"
    /\ rq' = [rq EXCEPT !.pc = IF rq.max_retries > 0 THEN "post" ELSE "done",
                        !.attempt = 0, !.log = <<>>, !.slept = <<>>,
                        !.ret = IF rq.max_retries > 0 THEN "none" ELSE "None"]
    /\ UNCHANGED <<learnerVars, arbiterVars, loopVars, analyzerVars>>

\* one pass through the try block: the post and what comes of it
Attempt ==
    /\ rq.pc = "post"
    /\ \E o \in Outcomes :
         rq' = [rq EXCEPT
                   !.log = Append(rq.log, o),
                   !.pc  = IF o = "body" THEN "done"
                           ELSE IF rq.attempt < rq.max_retries - 1 THEN "wait"
                           ELSE "done",
                   !.ret = IF o = "body" THEN "body"
                           ELSE IF rq.attempt < rq.max_retries - 1 THEN "none"
                           ELSE "None"]
    /\ UNCHANGED <<learnerVars, arbiterVars, loopVars, analyzerVars>>

\* _wait_before_retry(attempt), then the next pass of the loop
WaitBeforeRetry ==
    /\ rq.pc = "wait"
    /\ rq' = [rq EXCEPT !.slept = Append(rq.slept, wait_time(rq.attempt)),
                        !.attempt = rq.attempt + 1,
                        !.pc = "post"]
    /\ UNCHANGED <<learnerVars, arbiterVars, loopVars, analyzerVars>>

\* the caller takes the result
RequestReturn ==
    /\ rq.pc = "done"
    /\ rq' = [rq EXCEPT !.pc = "idle"]
    /\ UNCHANGED <<learnerVars, arbiterVars, loopVars, analyzerVars>>

----------------------------------------------------------------------------
(* _prepare_state called on its own *)

EncoderPatterns ==
    {[rsi |-> r, macd |-> m, volume |-> v, change_24h |-> c, trend |-> t,
      volatility |-> y, volume_change |-> w] :
        r \in {NoField, BadField, Num(30000)},
        m \in {NoMacd, MacdMap(NoField), MacdMap(Num(500))},
        v \in {NoField, Num(2000000)},
        c \in {NoField, Num(5000)},
        t \in {NoLabel} \cup {StrLabel(l) : l \in Trends},
        y \in {NoField, Num(200)},
        w \in {NoField, Num(10000)}}
EncoderSentiments ==
    {[sentiment |-> s, confidence |-> c, sources |-> n] :
        s \in SentimentValues,
        c \in {NoField, BadField, Num(800)},
        n \in {NoField, Num(0), Num(3)}}

NoEncoderCall ==
    [op |-> "idle", pa |-> NoPattern, sr |-> NoSentiment, out |-> NoState]

\* _prepare_state(pattern_analysis, sentiment_result)
EncodeState ==
    /\ enc.op = "idle"
    /\ \E pa \in EncoderPatterns, sr \in EncoderSentiments :
         enc' = [op |-> "_prepare_state", pa |-> pa, sr |-> sr,
                 out |-> _prepare_state(pa, sr)]
    /\ UNCHANGED <<learnerVars, arbiterVars, loopVars, an, mk, handlerVars>>

\* the caller takes the vector
EncoderReturn ==
    /\ enc.op # "idle"
    /\ enc' = NoEncoderCall
    /\ UNCHANGED <<learnerVars, arbiterVars, loopVars, an, mk, handlerVars>>

----------------------------------------------------------------------------
(* Specifications *)

Init ==
    /\ L = [id \in Learners |-> FreshLearner]
    /\ disk = NoFile
    /\ hist = [id \in Learners |-> <<>>]
    /\ last = NoLast
    /\ saved = NoSnapshot
    /\ apc = "idle"
    /\ pattern_analysis = NoPattern
    /\ sentiment_result = NoSentiment
    /\ state = NoState
    /\ action = NoAction
    /\ result = "none"
    /\ path = "none"
    /\ task = [t \in Tasks |-> IdleTask]
    /\ running = NoTask
    /\ an = NoCall
    /\ mk = NoMarketCall
    /\ enc = NoEncoderCall
    /\ rq = NoHandler

TrainA        == Train("A", LearnerExps, MaxTrainCalls)
PredictA      == PredictAction("A")
SaveA         == SaveModel("A")
TrainToFloor  == Train("A", DecayExps, MaxDecayCalls)
TrainWellFormed == Train("A", WellFormedExps, MaxTrainCalls)
SaveAny       == \E id \in Learners : SaveModel(id)
LoadAny       == \E id \in Learners : LoadModel(id)

\* one learner: train, predict_action, save_model
NextLearner == TrainA \/ PredictA \/ SaveA
SpecLearner == Init /\ [][NextLearner]_vars

\* one learner trained until epsilon rests on its floor
NextDecay == TrainToFloor \/ PredictA
SpecDecay == Init /\ [][NextDecay]_vars

\* checkpoints written and read back
NextPersist == TrainWellFormed \/ SaveAny \/ LoadAny
SpecPersist == Init /\ [][NextPersist]_vars

\* learners with exploration switched off between training calls
ForceAny   == \E id \in Learners : ForceEpsilon(id)
PredictAny == \E id \in Learners : PredictAction(id)
NextGreedy == TrainWellFormed \/ ForceAny \/ PredictAny
SpecGreedy == Init /\ [][NextGreedy]_vars

\* requests decided with the learner as the policy, exploring or greedy
ForceA == ForceEpsilon("A")
NextRecommend ==
    \/ ReceiveRequest \/ PrepareState \/ AwaitPredictAction \/ MapAction
    \/ Fallback \/ Return \/ ForceA
SpecRecommend == Init /\ [][NextRecommend]_vars

\* the request handler; the fair specification has every post and every
\* sleep come to an end
NextRequest ==
    \/ NewRequestHandler \/ ProcessRequest \/ Attempt \/ WaitBeforeRetry
    \/ RequestReturn
SpecRequest == Init /\ [][NextRequest]_vars
SpecRequestFair ==
    Init /\ [][NextRequest]_vars /\ WF_vars(Attempt) /\ WF_vars(WaitBeforeRetry)

\* one request through the arbiter after another
NextArbiter ==
    \/ ReceiveRequest \/ PrepareState \/ AwaitPredictAction \/ AwaitOtherPolicy
    \/ MapAction \/ Fallback \/ Return
SpecArbiter == Init /\ [][NextArbiter]_vars

\* concurrent requests on one event loop
NextLoop ==
    \E t \in Tasks :
        \/ CallTrain(t) \/ CallPredict(t) \/ Resume(t)
        \/ TrainAppend(t) \/ TrainSample(t) \/ TrainOptimizerStep(t)
        \/ TrainSync(t) \/ TrainDecay(t) \/ PredictEval(t) \/ TaskReturn(t)
SpecLoop == Init /\ [][NextLoop]_vars

\* a learner restored from the writer's checkpoint and trained beside it
LoadB == LoadModel("B")
NextResume == TrainWellFormed \/ SaveA \/ LoadB \/ TrainBoth
SpecResume == Init /\ [][NextResume]_vars

\* checkpoints read back from files that may lack entries
LoadFileB == LoadModelFile("B")
NextRestore == TrainWellFormed \/ SaveA \/ LoadFileB
SpecRestore == Init /\ [][NextRestore]_vars

\* the top-level analysis
NextMarket ==
    AnalyzeMarket \/ GenerateTradeSignal \/ AnalyzeSentiment \/ MarketReturn
SpecMarket == Init /\ [][NextMarket]_vars

\* the state encoder
NextEncoder == EncodeState \/ EncoderReturn
SpecEncoder == Init /\ [][NextEncoder]_vars

\* pattern detector, trend classifier and signal scorer
NextPatterns ==
    \/ DetectPatterns \/ DetermineTrend \/ GenerateSignals \/ AnalyzePattern
    \/ AnalyzerReturn
SpecPatterns == Init /\ [][NextPatterns]_vars

\* the indicator calculator
NextIndicators == CalculateRsi \/ CalculateIndicators \/ AnalyzerReturn
SpecIndicators == Init /\ [][NextIndicators]_vars

----------------------------------------------------------------------------
(* Claims *)

Signals == {"BUY", "SELL", "HOLD"}
Mem(id) == L[id].memory
Calls(id) == Len(hist[id])
\* the step is a train call of learner "A"
TrainStep == Calls("A")' = Calls("A") + 1

\* C1: every call of _generate_recommendation ends by returning one of BUY,
\* SELL, HOLD; no exception reaches the caller.
C1_AlwaysASignal == apc = "done" => result \in Signals

\* C2: an action in {0,1,2} from predict_action gives the mapped signal
\* (0 BUY, 1 SELL, 2 HOLD) without evaluating the fallback; any other value,
\* or an exception of the encoding or of the prediction, gives exactly the
\* outcome of _traditional_recommendation on the same arguments.
C2_ArbiterDispatch ==
    apc = "done" =>
        IF state.ok /\ action.src # "none" /\ ~action.raised
           /\ action.value \in {0, 1, 2}
        THEN /\ path = "rl"
             /\ result = CASE action.value = 0 -> "BUY"
                           [] action.value = 1 -> "SELL"
                           [] action.value = 2 -> "HOLD"
        ELSE /\ path = "rule"
             /\ result = TraditionalOutcome(pattern_analysis, sentiment_result)

\* an out-of-range action was answered and the fallback decided BUY
C2_Witness ==
    /\ apc = "done" /\ path = "rule" /\ result = "BUY"
    /\ state.ok /\ ~action.raised /\ action.value = 3

FieldOr(f, default) == IF f.k = "absent" THEN default ELSE f.v
HasLabel(sr, l) == sr.sentiment.k \in {"str", "enum"} /\ sr.sentiment.label = l
RuleInputsNumeric(pa, sr) ==
    /\ pa.rsi.k # "bad" /\ pa.macd.k # "bad" /\ pa.macd.value.k # "bad"
    /\ sr.confidence.k # "bad"
RuleTable(pa, sr) ==
    LET conf == FieldOr(sr.confidence, 0)
        rsi  == FieldOr(pa.rsi, 50000)
        macd == IF pa.macd.k = "absent" THEN 0 ELSE FieldOr(pa.macd.value, 0)
    IN  IF conf > 750 /\ HasLabel(sr, "positive") /\ (rsi < 30000 \/ macd > 0)
        THEN "BUY"
        ELSE IF conf > 750 /\ HasLabel(sr, "negative") /\ (rsi > 70000 \/ macd < 0)
        THEN "SELL"
        ELSE "HOLD"

\* C3: for every sentiment label, confidence, RSI and MACD value the
\* fallback returns BUY when confidence > 0.75, the sentiment is positive and
\* (RSI < 30 or MACD value > 0); SELL when confidence > 0.75, the sentiment
\* is negative and (RSI > 70 or MACD value < 0); HOLD otherwise.
C3_TraditionalTable ==
    (apc = "done" /\ path = "rule"
     /\ RuleInputsNumeric(pattern_analysis, sentiment_result))
    => result = RuleTable(pattern_analysis, sentiment_result)

\* C4: predict_action returns a value in {0,1,2} for every state argument
\* and every learner state: 2 when the evaluation fails, a random action
\* when the draw is below epsilon, the arg-max action otherwise.
C4_ActionInRange ==
    last.op = "predict_action" =>
        /\ last.ret \in {0, 1, 2}
        /\ (last.draw >= L[last.who].epsilon /\ last.state.shape = "bad")
              => last.ret = 2

\* C5: a train call after whose append the memory holds fewer than
\* batch_size experiences leaves policy parameters, target parameters,
\* optimizer state and epsilon as they were and raises nothing; so a fresh
\* learner has unchanged parameters until its batch_size-th call.
C5_SkipLeavesPolicyState ==
    /\ [][(TrainStep /\ Len(Mem("A"))' < batch_size)
            => /\ PolicyState(L["A"])' = PolicyState(L["A"])
               /\ last'.branch = "skip"]_vars
    /\ [](Calls("A") < batch_size
            => PolicyState(L["A"]) = PolicyState(FreshLearner))

\* a train call skipped the update on a memory that is not empty
C5_Witness ==
    /\ last.op = "train" /\ last.branch = "skip"
    /\ Len(Mem("A")) = batch_size - 1 /\ Calls("A") = batch_size - 1

\* C6: after n train calls on a fresh learner the memory holds the last
\* min(n, maxlen) experiences in arrival order, never more than maxlen; a
\* call on a full memory evicts exactly the oldest.
C6_ReplayMemoryFifo ==
    LET n == Calls("A")
        k == Min(n, maxlen)
    IN  /\ Len(Mem("A")) = k
        /\ Len(Mem("A")) <= maxlen
        /\ Mem("A") = SubSeq(hist["A"], n - k + 1, n)

\* a call on a full memory evicted an experience that differs from the
\* one that is now the oldest
C6_Witness ==
    /\ last.op = "train" /\ Calls("A") > maxlen
    /\ hist["A"][Calls("A") - maxlen] # Mem("A")[1]

C8_EpsilonDecay ==
    /\ [][(TrainStep /\ last'.branch = "update")
            => L'["A"].epsilon =
                 Max(epsilon_min, (L["A"].epsilon * epsilon_decay) \div 1000)]_vars
    /\ [][(TrainStep /\ Len(Mem("A"))' < batch_size)
            => L'["A"].epsilon = L["A"].epsilon]_vars
    /\ [][L'["A"].epsilon <= L["A"].epsilon]_vars
    /\ [](L["A"].epsilon >= epsilon_min /\ L["A"].epsilon <= 1000)

\* an update was applied with epsilon already on its floor
C8_Witness ==
    /\ last.op = "train" /\ last.branch = "update"
    /\ L["A"].epsilon = epsilon_min
    /\ L["A"].optimizer.step > 440

InFlight(t) == task[t].pc \notin {"idle", "start"}

\* C9: with several requests on one shared learner, while a train call is
\* between its first and its last statement no other train or
\* predict_action call executes a statement.
C9_TrainNeverInterleaved ==
    \A t \in Tasks :
        (task[t].kind = "train" /\ InFlight(t))
            => \A u \in Tasks \ {t} : ~InFlight(u)

\* a train call stands between its optimizer step and its target sync
\* while a predict_action call is waiting to run
C9_Witness ==
    \E t \in Tasks, u \in Tasks :
        /\ task[t].kind = "train" /\ task[t].pc = "sync"
        /\ L["A"].target_net # L["A"].policy_net
        /\ task[u].kind = "predict_action" /\ task[u].pc = "start"

\* C10: after save_model wrote the checkpoint, a load_model of that path
\* that completes leaves the loading learner with the policy parameters,
\* target parameters, optimizer state and epsilon the saver had when it
\* saved; save_model changes nothing in the saving learner.
C10_SaveLoadRoundTrip ==
    /\ []((last.op = "load_model" /\ last.branch = "ok")
            => /\ saved.valid
               /\ PolicyState(L[last.who]) = saved.ps)
    /\ [][(last'.op = "save_model") => (L' = L /\ hist' = hist)]_vars

\* learner "B" loaded a checkpoint that learner "A" wrote after training
C10_Witness ==
    /\ last.op = "load_model" /\ last.branch = "ok" /\ last.who = "B"
    /\ PolicyState(L["B"]) = saved.ps
    /\ saved.ps.optimizer.step > 0
    /\ saved.ps.epsilon < 1000

\* C11: a learner restored with load_model from a checkpoint resumes
\* training exactly like the learner that wrote it: after every train call
\* given to both with the same experience and the same sample, both hold the
\* same policy parameters, target parameters, optimizer state and epsilon.
C11_ResumeEquivalence ==
    (last.op = "train_both") => (PolicyState(L["A"]) = PolicyState(L["B"]))

\* the four components a checkpoint holds
CheckpointState(ckpt) ==
    [policy_net |-> ckpt.policy_net_state_dict,
     target_net |-> ckpt.target_net_state_dict,
     optimizer |-> ckpt.optimizer_state_dict, epsilon |-> ckpt.epsilon]

\* C12: load_model restores PolicyState as one unit: after any load_model
\* call either all four components come from the checkpoint or, when the
\* load fails at any point, all four are as they were before the call.
C12_LoadAtomic ==
    [][(last'.op = "load_model") =>
          \/ /\ disk.k = "ckpt"
             /\ PolicyState(L'[last'.who]) = CheckpointState(disk)
          \/ PolicyState(L'[last'.who]) = PolicyState(L[last'.who])]_vars

Populated(f) == f.k = "num"

\* C13: analyze_market and generate_trade_signal return either a result with
\* every field populated, recommendation in {BUY, SELL, HOLD} and confidence
\* in [0,1] when the sentiment confidences are in [0,1], or None; they
\* return None when the pattern bundle is absent and never raise.
C13_AnalysisOrNone ==
    (mk.op \in {"analyze_market", "generate_trade_signal"}) =>
        LET m == mk.market
            a == mk.analysis
            InUnit == \A i \in 1..Len(mk.sentiments) :
                          mk.sentiments[i].confidence \in 0..1000
        IN  /\ ~m.raised /\ ~a.raised
            /\ ~mk.bundle_ok => m.none
            /\ ~m.none =>
                 /\ Populated(m.price) /\ Populated(m.change_24h)
                 /\ Populated(m.volume) /\ Populated(m.confidence)
                 /\ m.sentiment.k \in {"str", "enum"}
                 /\ m.recommendation \in Signals
                 /\ InUnit => m.confidence.v \in 0..1000
            /\ (mk.op = "generate_trade_signal") =>
                 /\ a.none <=> m.none
                 /\ ~a.none =>
                      /\ a.recommendation \in Signals
                      /\ Populated(a.confidence)
                      /\ InUnit => a.confidence.v \in 0..1000
                      /\ a.indicators # <<>>

\* generate_trade_signal returned a populated TradeAnalysis
C13_Witness ==
    /\ mk.op = "generate_trade_signal"
    /\ mk.bundle_ok
    /\ ~mk.analysis.none
    /\ mk.analysis.recommendation = "SELL"
    /\ mk.analysis.confidence = Num(600)

\* every field of the two mappings is absent or holds a value of its type
WellTyped(pa, sr) ==
    /\ \A f \in {pa.rsi, pa.volume, pa.change_24h, pa.volatility,
                 pa.volume_change, sr.confidence, sr.sources} : f.k # "bad"
    /\ pa.macd.k # "bad" /\ pa.macd.value.k # "bad"

\* C14: _prepare_state returns exactly 10 entries and does not raise when
\* fields are absent; an absent field takes its neutral value, so two empty
\* mappings give [0.5, 0, 0, 0, 0, 0, 0, 0, 0, 0]; present fields fill the
\* slots as RSI/100, MACD value, volume/1e6, change_24h/100, trend in
\* {1,-1,0}, sentiment polarity in {1,-1,0}, confidence, volatility,
\* volume_change/100, source count/10.
C14_StateVector ==
    (enc.op = "_prepare_state" /\ WellTyped(enc.pa, enc.sr)) =>
        LET pa == enc.pa
            sr == enc.sr
            v  == enc.out.vec
        IN  /\ enc.out.ok
            /\ Len(v) = 10
            /\ v[1] * 100 = FieldOr(pa.rsi, 50000)
            /\ v[2] = (IF pa.macd.k = "absent" THEN 0
                       ELSE FieldOr(pa.macd.value, 0))
            /\ v[3] * 1000000 = FieldOr(pa.volume, 0)
            /\ v[4] * 100 = FieldOr(pa.change_24h, 0)
            /\ v[5] = (IF pa.trend.k = "absent" THEN 0
                       ELSE IF pa.trend.label = "up" THEN 1000
                       ELSE IF pa.trend.label = "down" THEN -1000 ELSE 0)
            /\ v[6] = (IF sr.sentiment.k = "absent" THEN 0
                       ELSE IF sr.sentiment.label = "positive" THEN 1000
                       ELSE IF sr.sentiment.label = "negative" THEN -1000 ELSE 0)
            /\ v[7] = FieldOr(sr.confidence, 0)
            /\ v[8] = FieldOr(pa.volatility, 0)
            /\ v[9] * 100 = FieldOr(pa.volume_change, 0)
            /\ v[10] * 10 = FieldOr(sr.sources, 0) * 1000
            /\ (pa = NoPattern /\ sr = NoSentiment) =>
                   v = <<500, 0, 0, 0, 0, 0, 0, 0, 0, 0>>

\* the encoder was given two empty mappings
C14_Witness ==
    /\ enc.op = "_prepare_state"
    /\ enc.pa = NoPattern /\ enc.sr = NoSentiment
    /\ enc.out.ok
    /\ enc.out.vec = <<500, 0, 0, 0, 0, 0, 0, 0, 0, 0>>

HasTag(p, tag) == \E i \in 1..Len(p) : p[i] = tag
IsNumber(f) == f.k = "num"
Below(a, b) == IsNumber(a) /\ IsNumber(b) /\ a.v < b.v

C16_DefaultsGiveNoPattern ==
    /\ (an.op = "_detect_patterns" /\ an.indicators = DefaultIndicators) =>
           (an.patterns = <<>> /\ _determine_trend(an.patterns) = "neutral")
    /\ (/\ an.op = "analyze_pattern" /\ an.ret.ok
        /\ an.ret.indicators = DefaultIndicators) =>
           (an.ret.patterns = <<>> /\ an.ret.trend = "neutral")

\* the majority vote over a tag sequence
Vote(p) ==
    LET bull == Cardinality({i \in 1..Len(p) :
                    p[i] \in {"oversold", "bullish_crossover", "bb_lower_break"}})
        bear == Cardinality({i \in 1..Len(p) :
                    p[i] \in {"overbought", "bearish_crossover", "bb_upper_break"}})
    IN  IF bull > bear THEN "up" ELSE IF bull < bear THEN "down" ELSE "neutral"

\* C17: _determine_trend returns up iff the bullish tags strictly outnumber
\* the bearish ones, down iff strictly fewer, neutral on a tie (the empty
\* sequence included); the trend of every bundle analyze_pattern returns
\* is this vote over the bundle's own patterns.
C17_TrendMajorityVote ==
    /\ (an.op = "_determine_trend") => (an.trend = Vote(an.patterns))
    /\ (an.op = "analyze_pattern" /\ an.ret.ok) =>
           (an.ret.trend = Vote(an.ret.patterns))

\* _determine_trend was given a non-empty tie
C17_Witness ==
    /\ an.op = "_determine_trend"
    /\ Len(an.patterns) = 2
    /\ Vote(an.patterns) = "neutral"
    /\ an.trend = "neutral"

\* C18: for a bundle with any number of tags the strength is
\* clamp(0.5 + 0.1 x confirming count, 0, 1), the confidence is
\* clamp(0.5 + 0.1 x pattern count + (0.2 if the trend is not neutral), 0, 1),
\* both lie in [0,1], and the signal is BUY iff strength > 0.7, SELL iff
\* strength < 0.3, else HOLD.
C18_ScorerClamps ==
    (/\ an.op = "generate_signals"
     /\ an.bundle.k = "map" /\ an.bundle.trend.k = "str") =>
        LET p == an.bundle.patterns
            trend == an.bundle.trend.label
            confirming ==
                Cardinality({i \in 1..Len(p) :
                    \/ trend = "up" /\ p[i] \in {"bullish_crossover", "oversold"}
                    \/ trend = "down" /\ p[i] \in {"bearish_crossover", "overbought"}})
            raw_strength == 500 + 100 * confirming
            raw_confidence == 500 + 100 * Len(p)
                              + (IF trend # "neutral" THEN 200 ELSE 0)
            sg == an.signals
        IN  /\ sg.strength = (IF raw_strength > 1000 THEN 1000
                              ELSE IF raw_strength < 0 THEN 0 ELSE raw_strength)
            /\ sg.confidence = (IF raw_confidence > 1000 THEN 1000
                                ELSE IF raw_confidence < 0 THEN 0
                                ELSE raw_confidence)
            /\ sg.strength \in 0..1000 /\ sg.confidence \in 0..1000
            /\ (sg.signal = "BUY") <=> (sg.strength > 700)
            /\ (sg.signal = "SELL") <=> (sg.strength < 300)
            /\ (sg.signal = "HOLD") <=> (sg.strength \in 300..700)

\* a bundle whose tags all confirm the trend, more of them than the clamp
\* lets through
C18_Witness ==
    /\ an.op = "generate_signals"
    /\ an.bundle.k = "map" /\ an.bundle.trend = StrLabel("up")
    /\ Len(an.bundle.patterns) = 2 * MaxRun
    /\ \A i \in 1..Len(an.bundle.patterns) :
           an.bundle.patterns[i] \in {"bullish_crossover", "oversold"}
    /\ an.signals.strength = 1000
    /\ an.signals.signal = "BUY"

\* C19: for a series shorter than the window (the single-point series of
\* _prepare_data included) or with zero mean loss _calculate_rsi returns
\* exactly 50.0; for every series the result is a number in [0,100], never
\* NaN or infinite.
C19_RsiNeutralDefault ==
    (an.op = "_calculate_rsi") =>
        /\ an.rsi.k = "num"
        /\ an.rsi.v \in 0..100000
        /\ (\/ Len(an.df) < periods
            \/ SumSeq([j \in 1..periods |->
                   LET i == Len(an.df) - periods + j
                   IN  IF i > 1 /\ an.df[i] < an.df[i - 1]
                       THEN an.df[i - 1] - an.df[i] ELSE 0]) = 0)
               => an.rsi = Num(50000)

\* C20: _calculate_indicators returns an entry for each of RSI, MACD and BB
\* and never raises: an indicator whose computation fails gets its safe
\* default (RSI 50.0, all-zero MACD record, all-zero Bollinger record), the
\* others are what their own computations produce.
C20_IndicatorsAlwaysPresent ==
    (an.op = "_calculate_indicators") =>
        LET ind == an.indicators
            failed(name) == name \in an.raises \/ Len(an.df) = 0
        IN  /\ ind.RSI.k # "bad" /\ ind.MACD.k = "map" /\ ind.BB.k = "map"
            /\ failed("RSI") => ind.RSI = Num(50000)
            /\ failed("MACD") => ind.MACD = MacdRecord(Num(0), Num(0), Num(0))
            /\ failed("BB") => ind.BB = BandRecord(Num(0), Num(0), Num(0))
            /\ ~failed("RSI") => ind.RSI = rsi_last(an.df)
            /\ ~failed("MACD") => ind.MACD = macd_last(an.df)
            /\ ~failed("BB") => ind.BB = bands_last(an.df)

\* only the MACD computation failed; RSI and the bands were computed
C20_Witness ==
    /\ an.op = "_calculate_indicators"
    /\ an.raises = {"MACD"}
    /\ an.indicators.MACD = MacdRecord(Num(0), Num(0), Num(0))
    /\ an.indicators.RSI.k = "num"
    /\ an.indicators.BB.upper.k = "num"
    /\ an.indicators.BB.upper.v > an.indicators.BB.lower.v

\* C21: in _detect_patterns a rule that throws (the entry of its indicator
\* is None) does not abort its siblings: for every indicator whose entry is
\* present, each of its tags is emitted iff its rule holds, whatever the
\* entries of the other two indicators are.
C21_FailingRuleKeepsSiblings ==
    (an.op = "_detect_patterns" /\ Len(an.df) > 0) =>
        LET ind   == an.indicators
            price == Num(an.df[Len(an.df)])
            p     == an.patterns
            zero  == Num(0)
        IN  /\ ind.RSI.k # "bad" =>
                 /\ HasTag(p, "oversold") <=> Below(ind.RSI, Num(30000))
                 /\ HasTag(p, "overbought") <=> Below(Num(70000), ind.RSI)
            /\ ind.MACD.k # "bad" =>
                 /\ HasTag(p, "bullish_crossover") <=>
                        (Below(zero, ind.MACD.hist) /\ Below(ind.MACD.signal, ind.MACD.macd))
                 /\ HasTag(p, "bearish_crossover") <=>
                        (Below(ind.MACD.hist, zero) /\ Below(ind.MACD.macd, ind.MACD.signal))
            /\ ind.BB.k # "bad" =>
                 /\ HasTag(p, "bb_upper_break") <=> Below(ind.BB.upper, price)
                 /\ HasTag(p, "bb_lower_break") <=> Below(price, ind.BB.lower)

\* the label the reduction is said to give: positive if any result is
\* positive, else neutral if any is neutral, else negative
MaxLabel(list) ==
    IF \E i \in 1..Len(list) : list[i].sentiment.label = "positive"
    THEN "positive"
    ELSE IF \E i \in 1..Len(list) : list[i].sentiment.label = "neutral"
    THEN "neutral"
    ELSE "negative"

\* the orderings of a list
Orderings(list) ==
    {[i \in 1..Len(list) |-> list[f[i]]] :
        f \in {g \in [1..Len(list) -> 1..Len(list)] :
                  \A i, j \in 1..Len(list) : g[i] = g[j] => i = j}}

\* C22: for every non-empty list of sentiment results, analyze_sentiment
\* answers with the lexicographically maximal label, the mean of the
\* confidences and the union of the sources, and every permutation of the
\* list gives the same answer.
C22_AggregationReduction ==
    (mk.op = "analyze_sentiment" /\ Len(mk.sentiments) > 0) =>
        LET list == mk.sentiments
            r    == mk.sentiment
        IN  /\ ~r.none
            /\ r.sentiment.label = MaxLabel(list)
            /\ r.confidence =
                   Num(SumSeq([i \in 1..Len(list) |-> list[i].confidence])
                           \div Len(list))
            /\ r.sources =
                   Num(Cardinality(UNION {list[i].sources : i \in 1..Len(list)}))
            /\ \A perm \in Orderings(list) : analyze_sentiment(perm) = r

\* C23: with epsilon at 0 predict_action is deterministic: of two calls in
\* a row on the same state argument, by learners whose policy parameters
\* are the same and whose epsilon is 0, the second returns what the first
\* returned, whatever the random draws are, and neither call takes the
\* exploration branch.
C23_GreedyDeterministic ==
    [][(/\ last.op = "predict_action" /\ last'.op = "predict_action"
        /\ last'.state = last.state
        /\ L[last.who].epsilon = 0 /\ L'[last'.who].epsilon = 0
        /\ L'[last'.who].policy_net = L[last.who].policy_net)
          => /\ last'.ret = last.ret
             /\ last.branch # "explore" /\ last'.branch # "explore"]_vars

\* a trained learner whose epsilon was then set to 0 evaluated its network
\* on a draw of 0.0
C23_Witness ==
    /\ last.op = "predict_action" /\ last.who = "A"
    /\ L["A"].epsilon = 0 /\ L["A"].policy_net # FreshLearner.policy_net
    /\ last.draw = 0 /\ last.branch = "exploit"

\* the step is a predict_action call
PredictStep == last'.op = "predict_action" /\ last' # last

\* C24: a predict_action call, whether it explores, evaluates the network or
\* fails, leaves policy parameters, target parameters, optimizer state,
\* epsilon and the replay memory of every learner as they were; among train,
\* predict_action and save_model only a train call changes any of them.
C24_PredictLeavesLearner ==
    /\ [][PredictStep => L' = L]_vars
    /\ [][L' # L => TrainStep]_vars

\* predict_action took its failure branch on a learner that has been trained
C24_Witness ==
    /\ last.op = "predict_action" /\ last.branch = "except"
    /\ PolicyState(L["A"]) # PolicyState(FreshLearner)
    /\ Len(Mem("A")) >= batch_size

\* an attempt that did not return: a status other than 200, or an exception
\* of the post or of reading the body
Failed(o) == o # "body"

\* what holds of a process_request call at every point of its run
RequestSafety ==
    (rq.pc \in {"post", "wait", "done"}) =>
        LET n == Len(rq.log)
        IN  /\ n <= rq.max_retries
            /\ \A i \in 1..(n - 1) : Failed(rq.log[i])
            /\ \A k \in 1..Len(rq.slept) : rq.slept[k] = Min(2 ^ (k - 1), 30)
            /\ rq.pc = "post" =>
                 /\ n < rq.max_retries /\ Len(rq.slept) = n
                 /\ \A i \in 1..n : Failed(rq.log[i])
            /\ rq.pc = "wait" =>
                 /\ n < rq.max_retries /\ Len(rq.slept) = n - 1
                 /\ Failed(rq.log[n])
            /\ rq.pc = "done" =>
                 /\ Len(rq.slept) = Max(n - 1, 0)
                 /\ rq.ret \in {"body", "None"}
                 /\ rq.ret = "body" <=> (n > 0 /\ rq.log[n] = "body")
                 /\ rq.ret = "None" <=>
                        (n = rq.max_retries /\ \A i \in 1..n : Failed(rq.log[i]))

\* C25: process_request ends after at most max_retries attempts; it returns
\* the body of the first attempt that was answered with status 200 and whose
\* body was read, and attempts nothing after it; after the failed attempt k
\* (counted from 0) that is not the last it sleeps min(2^k, 30) seconds; it
\* does not sleep after the last attempt; it returns None exactly when all
\* max_retries attempts failed.
C25_RetryTerminates ==
    /\ []RequestSafety
    /\ (rq.pc \in {"post", "wait"}) ~> (rq.pc = "done")

\* every attempt of the largest retry limit failed, and the last sleep was
\* the capped one
C25_Witness ==
    /\ rq.pc = "done" /\ rq.ret = "None"
    /\ rq.max_retries = MaxRetryLimit
    /\ Len(rq.log) = MaxRetryLimit /\ Len(rq.slept) = MaxRetryLimit - 1
    /\ rq.slept[Len(rq.slept)] = 30

\* the tags of a sequence that belong to one indicator
TagsOf(p, tags) == Cardinality({i \in 1..Len(p) : p[i] \in tags})

\* a bundle as the detector and the classifier form it: at most one tag of
\* each indicator, and the trend of the majority vote
PipelineShaped(b) ==
    /\ b.k = "map" /\ b.trend.k = "str"
    /\ TagsOf(b.patterns, {"oversold", "overbought"}) <= 1
    /\ TagsOf(b.patterns, {"bullish_crossover", "bearish_crossover"}) <= 1
    /\ TagsOf(b.patterns, {"bb_upper_break", "bb_lower_break"}) <= 1
    /\ b.trend.label = Vote(b.patterns)

\* C26: generate_signals gives no bundle a strength below 0.5, so it never
\* answers SELL; a bundle with at most one tag per indicator and the voted
\* trend gets a strength of at most 0.7 and the signal HOLD.
C26_PipelineScoresHold ==
    (an.op = "generate_signals") =>
        /\ an.signals.strength >= 500
        /\ an.signals.signal # "SELL"
        /\ PipelineShaped(an.bundle) =>
              /\ an.signals.strength <= 700
              /\ an.signals.signal = "HOLD"

\* a bundle of three bullish tags, two of which confirm the trend
C26_Witness ==
    /\ an.op = "generate_signals"
    /\ PipelineShaped(an.bundle)
    /\ an.bundle.patterns = <<"oversold", "bullish_crossover", "bb_lower_break">>
    /\ an.bundle.trend = StrLabel("up")
    /\ an.signals.strength = 700 /\ an.signals.signal = "HOLD"

\* C27: the 'signals' entry of every bundle analyze_pattern returns is
\* {signal: HOLD, strength: 0.5, confidence: 0.8}, whatever tags were
\* detected.
C27_SignalsConstant ==
    (an.op = "analyze_pattern" /\ an.ret.ok) =>
        an.ret.signals = [signal |-> "HOLD", strength |-> 500, confidence |-> 800]

\* analyze_pattern returned a bundle without tags and a neutral trend, for
\* which the confidence formula gives 0.5
C27_Witness ==
    /\ an.op = "analyze_pattern" /\ an.ret.ok
    /\ an.ret.patterns = <<>> /\ an.ret.trend = "neutral"
    /\ an.ret.signals.confidence = 800

\* C28: the state vector analyze_market hands to predict_action has slot 0
\* at 0.5 and slots 1, 7 and 8 at 0, whatever RSI and MACD the bundle of
\* analyze_pattern holds under 'indicators'.
C28_MarketStateDefaults ==
    (mk.op \in {"analyze_market", "generate_trade_signal"} /\ mk.state.ok) =>
        /\ Len(mk.state.vec) = 10
        /\ mk.state.vec[1] = 500
        /\ mk.state.vec[2] = 0
        /\ mk.state.vec[8] = 0
        /\ mk.state.vec[9] = 0

\* a state was encoded from a bundle whose RSI is not the default 50
C28_Witness ==
    /\ mk.op = "analyze_market" /\ mk.bundle_ok /\ mk.state.ok
    /\ mk.rsi # Num(50000)
    /\ mk.state.vec[1] = 500
    /\ ~mk.market.none

\* C29: with the learner as the policy, a request whose state encoding
\* succeeded is decided by the policy: predict_action raised nothing and
\* answered a value in {0,1,2}, and the signal is the mapped one; the
\* fallback decides only the requests whose encoding raised.
C29_EncodedMeansPolicyDecides ==
    apc = "done" =>
        /\ state.ok =>
             /\ action.src = "learner" /\ ~action.raised
             /\ action.value \in {0, 1, 2}
             /\ path = "rl" /\ result = signal_map(action.value)
        /\ path = "rule" => ~state.ok

\* a greedy learner decided a request by the arg-max of its network
C29_Witness ==
    /\ apc = "done" /\ state.ok /\ path = "rl"
    /\ L["A"].epsilon = 0
    /\ action.src = "learner"
    /\ action.value = argmax(q_values(L["A"].policy_net, StateArg(state.vec).x))

\* the experience the latest train call of learner "A" was given
Newest == hist["A"][Len(hist["A"])]

\* C30: a train call ends by skipping, updating or logging its exception,
\* never by raising; one whose update fails keeps the new experience in the
\* replay memory and leaves policy parameters, target parameters and epsilon
\* as before the call; an update fails only while a malformed experience is
\* in the memory, and once none is left every call on a filled memory
\* updates.
C30_FailedUpdateKeepsExperience ==
    /\ [][TrainStep => last'.branch \in {"skip", "update", "except"}]_vars
    /\ [][(TrainStep /\ last'.branch = "except")
            => /\ Mem("A")' = deque_append(Mem("A"), Newest')
               /\ L'["A"].policy_net = L["A"].policy_net
               /\ L'["A"].target_net = L["A"].target_net
               /\ L'["A"].epsilon = L["A"].epsilon
               /\ \E i \in 1..Len(Mem("A")') : Malformed(Mem("A")'[i])]_vars
    /\ [][(/\ TrainStep /\ Len(Mem("A")') >= batch_size
           /\ \A i \in 1..Len(Mem("A")') : ~Malformed(Mem("A")'[i]))
            => last'.branch = "update"]_vars

\* a train call given a well-formed experience failed on a malformed one
\* recorded by an earlier call, and the new experience is in the memory
C30_Witness ==
    /\ last.op = "train" /\ last.branch = "except"
    /\ Calls("A") >= 2
    /\ ~Malformed(Newest)
    /\ Mem("A")[Len(Mem("A"))] = Newest
    /\ \E i \in 1..(Len(Mem("A")) - 1) : Malformed(Mem("A")[i])

====
